---- MODULE Spec2Model ----
(***************************************************************************)
(* FFmpegFile: the frame-accurate random-access reader of openfx-io        *)
(* (FFmpeg/FFmpegFile.cpp).  The reader's stream descriptor, its decode()  *)
(* loop and the container / decoder it drives are modelled as a state      *)
(* machine; one step of the machine is one call prologue or one iteration  *)
(* of the do-while loop of FFmpegFile::decode, epilogue included.          *)
(***************************************************************************)
EXTENDS Integers, Sequences, FiniteSets, TLC

\* ------------------------------------------------------------------ bounds
\* Largest number of video frames a container of the model carries.
MaxFrames == 3

\* Values of codec delay (getCodecDelay) and of the maxRetries argument.
DelayValues == {0, 1}
RetryValues == {0, 2}

\* ------------------------------------------------------------- containers
\* AV_NOPTS_VALUE is INT64_MIN in libav; any value that is no timestamp of
\* the model serves.
AV_NOPTS_VALUE == -(2^20)

IntMax(a, b) == IF a >= b THEN a ELSE b

\* Truncating division of C (b > 0).
Quot(a, b) == IF a >= 0 THEN a \div b ELSE -((-a) \div b)

\* The two stream profiles: time base, frame rate, start PTS.  In both the
\* duration of a frame is a whole number of ticks (TicksPerFrame).
Profile(audio) ==
    IF audio
    THEN [tbNum |-> 1001, tbDen |-> 30000, fpsNum |-> 30000, fpsDen |-> 1001,
          startPTS |-> 0]
    ELSE [tbNum |-> 1, tbDen |-> 48, fpsNum |-> 24, fpsDen |-> 1,
          startPTS |-> 5]

TicksPerFrame(c) == (c.fpsDen * c.tbDen) \div (c.fpsNum * c.tbNum)

\* The timestamp the muxer gave video frame i.
FrameTs(c, i) == c.startPTS + i * TicksPerFrame(c)

\* A container: n video frames of data, adv frames advertised by the header
\* (and present in the seek index), the frames flagged as key-frames, the
\* frames at which the decoder can really start, the packets the decoder
\* cannot decode, which timestamps the packets carry, whether packets of a
\* second stream are interleaved, the codec delay and the seek target at
\* which the index overshoots (-1: never).  A container of the family departs
\* from a sound one in at most one of these respects.  hollow are the frames
\* whose packet has no payload (AVPacket::size is 0).
TsModes == {"both", "dtsOnly", "ptsGap", "none"}

Anomalies(c) ==
    (IF c.adv # c.n THEN 1 ELSE 0)
  + Cardinality(c.keys \ c.real)
  + Cardinality(c.bad)
  + (IF c.ts # "both" THEN 1 ELSE 0)
  + (IF c.ovs >= 0 THEN 1 ELSE 0)

KeySets(adv) == { 0 .. (adv - 1), {0}, {0, adv - 1} }

Containers ==
    { c \in UNION { [ n : {n}, adv : {n, n + 1},
                      keys : KeySets(n + 1) \cup KeySets(n),
                      real : SUBSET (0 .. n),
                      bad : { {} } \cup { {i} : i \in 0 .. (n - 1) },
                      ts : TsModes, audio : BOOLEAN, delay : DelayValues,
                      ovs : -1 .. (n - 1), hollow : { {} } ] :
                    n \in 1 .. MaxFrames } :
        /\ c.keys \subseteq 0 .. (c.adv - 1)
        /\ 0 \in c.keys
        /\ c.real \subseteq c.keys
        /\ c.ovs < c.adv - 1
        /\ Anomalies(c) <= 1 }


\* ------------------------------------------------------------------ state
VARIABLES
    file,                          \* the container the reader was opened on
    frames,                        \* Stream::_frames
    decodeNextFrameIn,             \* Stream::_decodeNextFrameIn
    decodeNextFrameOut,            \* Stream::_decodeNextFrameOut
    accumDecodeLatency,            \* Stream::_accumDecodeLatency
    timestampField,                \* Stream::_timestampField: "pts" or "dts"
    ptsSeen,                       \* Stream::_ptsSeen
    convertCtx,                    \* Stream::_convertCtx is not NULL
    data,                          \* frame held by the output buffer _data, -1: none
    filePos,                       \* read position of the AVFormatContext
    decoderQueue,                  \* frames held back by the decoder
    decoderSynced,                 \* the decoder has met a real key-frame since its flush
    avPacket,                      \* _avPacket: "blank", or the packet it owns:
                                   \* "data" (size > 0) or "empty" (size 0)
    pc,                            \* "idle": no call in progress, "loop": in the do-while,
                                   \* "done": the call has ended, its locals still in view
    frame,                         \* decode(): the frame argument, as clamped
    loadNearest,                   \* decode(): the loadNearest argument
    retriesRemaining,              \* decode(): retriesRemaining
    lastSeekedFrame,               \* decode(): lastSeekedFrame
    awaitingFirstDecodeAfterSeek,  \* decode(): awaitingFirstDecodeAfterSeek
    hasPicture,                    \* decode(): hasPicture
    decodeAttempted,               \* decode(): decodeAttempted of the last iteration
    frameDecoded,                  \* decode(): frameDecoded of the last iteration
    result,                        \* how the last call ended: "true", "false", "throw"
    errorMsg,                      \* _errorMsg: the failure recorded last
    requested,                     \* the frame argument as passed
    maxRetriesArg,                 \* the maxRetries argument as passed
    framesAtCall,                  \* _frames when the call was entered
    seeksInCall,                   \* seekFrame calls made by the call so far
    stallRetries,                  \* stall retries made by the call so far
    firstOp,                       \* first library operation of the call
    prevResult,                    \* result of the call before this one
    seqCalls,                      \* k if the calls so far were decode(0), .., decode(k-1)
                                   \* with loadNearest false and all returned true; else -1
    totalSeeks                     \* seekFrame calls made by all calls of the reader

\* The decode() state but _errorMsg, _data and the first library call.
descriptorVars ==
    << file, frames, decodeNextFrameIn, decodeNextFrameOut,
       accumDecodeLatency, timestampField, ptsSeen, convertCtx, filePos,
       decoderQueue, decoderSynced, avPacket, pc, frame, loadNearest,
       retriesRemaining, lastSeekedFrame, awaitingFirstDecodeAfterSeek,
       hasPicture, decodeAttempted, frameDecoded, result, requested,
       maxRetriesArg, framesAtCall, seeksInCall, stallRetries, prevResult,
       seqCalls, totalSeeks >>

decodeVars == << descriptorVars, errorMsg, data, firstOp >>

VARIABLES
    media,                         \* what the constructor meets: filename, container, streams
    context,                       \* _context: "null", "open" or "closed"
    streams,                       \* _streams: the registered stream descriptors
    invalidState,                  \* _invalidState
    dataSize,                      \* bytes allocated for _data, 0: _data is NULL
    dataAllocs,                    \* allocations of _data made so far
    opc,                           \* "new", "scan" (constructor loop), "ready", "destroyed"
    scanIdx,                       \* constructor: the loop index i, counted from 1
    ret,                           \* the last public call of a ready reader and its result
    mtBuild,                       \* the build defines OFX_IO_MT_FFMPEG
    lockOwner,                     \* thread holding _lock, 0: free
    inMethod                       \* thread -> the public method it is executing, "none"

readerVars == << media, context, streams, invalidState, dataSize, dataAllocs,
                 opc, scanIdx, ret >>

lockVars == << mtBuild, lockOwner, inMethod >>

\* The convert context of the stream and what getConvertCtx() works with.
VARIABLES
    swsContext,                    \* what the SwsContext of _convertCtx was set up with
    resetConvertCtx,               \* Stream::_resetConvertCtx
    colorMatrixTypeOverride,       \* Stream::_colorMatrixTypeOverride
    codecContext,                  \* _codecContext: pix_fmt, color_range, colorspace
    ndebugBuild,                   \* the build defines NDEBUG
    convCall                       \* the getConvertCtx() call that has just returned

scalerVars == << swsContext, resetConvertCtx, colorMatrixTypeOverride,
                 codecContext, ndebugBuild, convCall >>

vars == << decodeVars, readerVars, lockVars, scalerVars >>

\* No SwsContext.
NoContext == [ srcFormat |-> "none", colorspace |-> "none", srcRange |-> -1,
              configured |-> FALSE ]

\* No getConvertCtx() call has just returned.
NoConv == [ outcome |-> "none" ]

\* The codec context of the plain stream.
PlainCodec == [ pix_fmt |-> "YUV420P", color_range |-> "MPEG",
                colorspace |-> "BT470BG" ]

\* The convert context state of a reader the specifications below do not
\* follow.
ScalerIdle ==
    /\ swsContext = NoContext
    /\ resetConvertCtx = FALSE
    /\ colorMatrixTypeOverride = 0
    /\ codecContext = PlainCodec
    /\ ndebugBuild = TRUE
    /\ convCall = NoConv

\* The mutable state as one record, on which the steps of decode() compute.
State ==
    [ frames |-> frames, decodeNextFrameIn |-> decodeNextFrameIn,
      decodeNextFrameOut |-> decodeNextFrameOut,
      accumDecodeLatency |-> accumDecodeLatency,
      timestampField |-> timestampField, ptsSeen |-> ptsSeen,
      convertCtx |-> convertCtx, data |-> data, filePos |-> filePos,
      decoderQueue |-> decoderQueue, decoderSynced |-> decoderSynced,
      avPacket |-> avPacket,
      pc |-> pc, frame |-> frame, loadNearest |-> loadNearest,
      retriesRemaining |-> retriesRemaining,
      lastSeekedFrame |-> lastSeekedFrame,
      awaitingFirstDecodeAfterSeek |-> awaitingFirstDecodeAfterSeek,
      hasPicture |-> hasPicture, decodeAttempted |-> decodeAttempted,
      frameDecoded |-> frameDecoded, result |-> result, errorMsg |-> errorMsg,
      requested |-> requested, maxRetriesArg |-> maxRetriesArg,
      framesAtCall |-> framesAtCall, seeksInCall |-> seeksInCall,
      stallRetries |-> stallRetries,
      firstOp |-> firstOp, prevResult |-> prevResult,
      seqCalls |-> seqCalls, totalSeeks |-> totalSeeks ]

Store(s) ==
    /\ frames' = s.frames
    /\ decodeNextFrameIn' = s.decodeNextFrameIn
    /\ decodeNextFrameOut' = s.decodeNextFrameOut
    /\ accumDecodeLatency' = s.accumDecodeLatency
    /\ timestampField' = s.timestampField
    /\ ptsSeen' = s.ptsSeen
    /\ convertCtx' = s.convertCtx
    /\ data' = s.data
    /\ filePos' = s.filePos
    /\ decoderQueue' = s.decoderQueue
    /\ decoderSynced' = s.decoderSynced
    /\ avPacket' = s.avPacket
    /\ pc' = s.pc
    /\ frame' = s.frame
    /\ loadNearest' = s.loadNearest
    /\ retriesRemaining' = s.retriesRemaining
    /\ lastSeekedFrame' = s.lastSeekedFrame
    /\ awaitingFirstDecodeAfterSeek' = s.awaitingFirstDecodeAfterSeek
    /\ hasPicture' = s.hasPicture
    /\ decodeAttempted' = s.decodeAttempted
    /\ frameDecoded' = s.frameDecoded
    /\ result' = s.result
    /\ errorMsg' = s.errorMsg
    /\ requested' = s.requested
    /\ maxRetriesArg' = s.maxRetriesArg
    /\ framesAtCall' = s.framesAtCall
    /\ seeksInCall' = s.seeksInCall
    /\ stallRetries' = s.stallRetries
    /\ firstOp' = s.firstOp
    /\ prevResult' = s.prevResult
    /\ seqCalls' = s.seqCalls
    /\ totalSeeks' = s.totalSeeks
    /\ UNCHANGED << file, readerVars, lockVars, scalerVars >>

\* ------------------------------------------- frame / timestamp mapping
\* Stream::frameToPts and Stream::ptsToFrame (truncating int64 arithmetic).
frameToPts(c, f) ==
    c.startPTS + Quot(f * c.fpsDen * c.tbDen, c.fpsNum * c.tbNum)

ptsToFrame(c, pts) ==
    Quot((pts - c.startPTS) * c.tbNum * c.fpsNum, c.tbDen * c.fpsDen)

\* Stream::getCodecDelay: the delay the codec reports.
getCodecDelay(c) == c.delay

\* ------------------------------------------------- container and decoder
SetMax(S) == CHOOSE x \in S : \A y \in S : y <= x
SetMin(S) == CHOOSE x \in S : \A y \in S : x <= y

\* Packets: with a second stream interleaved, one of its packets precedes
\* every video packet; positions count from 1.
NumPackets(c) == IF c.audio THEN 2 * c.n ELSE c.n
PosOfFrame(c, i) == IF c.audio THEN 2 * i + 1 ELSE i + 1
IsVideoPos(c, p) == (~c.audio) \/ (p % 2 = 0)
FrameAtPos(c, p) == IF c.audio THEN (p \div 2) - 1 ELSE p - 1

HasPts(c, i) ==
    CASE c.ts = "both" -> TRUE
      [] c.ts = "ptsGap" -> i # c.n - 1
      [] OTHER -> FALSE
HasDts(c, i) == c.ts # "none"

\* The AVPacket av_read_frame delivers at position p (p <= NumPackets).
PacketAt(c, p) ==
    IF IsVideoPos(c, p)
    THEN LET i == FrameAtPos(c, p) IN
         [ stream_index |-> 0, content |-> i,
           size |-> IF i \in c.hollow THEN 0 ELSE 1,
           pts |-> IF HasPts(c, i) THEN FrameTs(c, i) ELSE AV_NOPTS_VALUE,
           dts |-> IF HasDts(c, i) THEN FrameTs(c, i) ELSE AV_NOPTS_VALUE ]
    ELSE [ stream_index |-> 1, content |-> -1, size |-> 1,
           pts |-> AV_NOPTS_VALUE, dts |-> AV_NOPTS_VALUE ]

\* av_seek_frame(.., timestamp, AVSEEK_FLAG_BACKWARD): the frame whose
\* packet is read next.  The index lands on the last flagged key-frame at or
\* before the timestamp (the first one if there is none), except at the
\* target where the index overshoots.
LandingOfSeek(c, ts) ==
    LET atOrBefore == { i \in c.keys : FrameTs(c, i) <= ts }
        after == { i \in c.keys : FrameTs(c, i) > ts }
    IN  IF c.ovs >= 0 /\ ts = FrameTs(c, c.ovs) /\ after # {}
        THEN SetMin(after)
        ELSE IF atOrBefore # {} THEN SetMax(atOrBefore) ELSE SetMin(c.keys)

\* avcodec_flush_buffers
FlushBuffers(s) == [s EXCEPT !.decoderQueue = << >>, !.decoderSynced = FALSE]

\* avcodec_decode_video2 on an empty packet: drains one held frame.
DecoderDrain(s) ==
    IF s.decoderQueue # << >>
    THEN [ picture |-> Head(s.decoderQueue),
           s |-> [s EXCEPT !.decoderQueue = Tail(s.decoderQueue)] ]
    ELSE [ picture |-> -1, s |-> s ]

\* avcodec_decode_video2 on the video packet holding frame i: the frame it
\* emits (-1: none) and the decoder afterwards.  A packet with no payload
\* is an empty packet to the decoder.  A packet is dropped when it is
\* undecodable or when the decoder has not met a real key-frame since the
\* flush; the decoder holds back getCodecDelay frames.
DecoderFeed(c, s, i) ==
    IF i \in c.hollow THEN DecoderDrain(s)
    ELSE IF i \in c.bad \/ (~s.decoderSynced /\ i \notin c.real)
    THEN [ picture |-> -1, s |-> s ]
    ELSE LET q == Append(s.decoderQueue, i) IN
         IF Len(q) > c.delay
         THEN [ picture |-> Head(q),
                s |-> [s EXCEPT !.decoderQueue = Tail(q), !.decoderSynced = TRUE] ]
         ELSE [ picture |-> -1,
                s |-> [s EXCEPT !.decoderQueue = q, !.decoderSynced = TRUE] ]

\* ------------------------------------------------------------ seekFrame
NoteOp(s, op) == [s EXCEPT !.firstOp = IF @ = "none" THEN op ELSE @]

\* FFmpegFile::seekFrame: flush, map the frame to a timestamp, seek.  ok is
\* whether av_seek_frame succeeds; on failure the error is recorded.
seekFrame(s, f, ok) ==
    LET s1 == NoteOp([FlushBuffers(s) EXCEPT !.seeksInCall = @ + 1,
                                             !.totalSeeks = @ + 1], "seek")
    IN  IF ok
        THEN [s1 EXCEPT !.filePos =
                  PosOfFrame(file, LandingOfSeek(file, frameToPts(file, f)))]
        ELSE [s1 EXCEPT !.errorMsg = "seek"]

\* --------------------------------------------------------------- decode
SetUpSeekKeepOut(s, target) ==
    [s EXCEPT !.lastSeekedFrame = target,
              !.decodeNextFrameIn = -1,
              !.accumDecodeLatency = 0,
              !.awaitingFirstDecodeAfterSeek = TRUE]

\* The cursor reset that precedes every seek inside decode().
SetUpSeek(s, target) ==
    [s EXCEPT !.lastSeekedFrame = target,
              !.decodeNextFrameIn = -1,
              !.decodeNextFrameOut = -1,
              !.accumDecodeLatency = 0,
              !.awaitingFirstDecodeAfterSeek = TRUE]

\* break out of the do-while with an error recorded.
BreakWith(s, msg) == [s EXCEPT !.pc = "break", !.errorMsg = msg]

\* A seek made inside the loop whose failure breaks out of it.
SeekOrBreak(s, target, ok) ==
    LET s1 == seekFrame(s, target, ok)
    IN  IF ok THEN s1 ELSE [s1 EXCEPT !.pc = "break"]

\* Stream::getConvertCtx as decode() uses it: the cached context, built on
\* first use; built is whether sws_getContext then returns a context.
getConvertCtx(s, built) ==
    IF s.convertCtx THEN s ELSE [s EXCEPT !.convertCtx = built]

FrameDecodedNoAdvance(s, picture, built) ==
    LET s1 == [s EXCEPT !.awaitingFirstDecodeAfterSeek = FALSE]
    IN  IF s1.decodeNextFrameOut = s1.frame
        THEN LET s3 == getConvertCtx(s1, built)
             IN  [s3 EXCEPT !.data = IF s3.convertCtx THEN picture ELSE @,
                            !.hasPicture = TRUE]
        ELSE [s1 EXCEPT !.decodeNextFrameOut = @ + 1]

FrameDecodedDoubleAdvance(s, picture, built) ==
    LET s1 == FrameDecodedNoAdvance(s, picture, built)
    IN  [s1 EXCEPT !.decodeNextFrameOut = @ + 1]

FrameDecodedResetLatency(s, picture, built) ==
    LET s1 == FrameDecodedNoAdvance(s, picture, built)
    IN  [s1 EXCEPT !.decodeNextFrameOut = IF s1.hasPicture THEN @ + 1 ELSE @,
                   !.accumDecodeLatency = 0]

\* A frame was decoded: the picture is converted into _data if it is the
\* desired frame and a convert context exists, and the output cursor moves.
FrameDecoded(s, picture, built) ==
    LET s1 == [s EXCEPT !.awaitingFirstDecodeAfterSeek = FALSE]
        s2 == IF s1.decodeNextFrameOut = s1.frame
              THEN LET s3 == getConvertCtx(s1, built)
                   IN  [s3 EXCEPT !.data = IF s3.convertCtx THEN picture ELSE @,
                                  !.hasPicture = TRUE]
              ELSE s1
    IN  [s2 EXCEPT !.decodeNextFrameOut = @ + 1]

\* No frame was decoded although decode was attempted: the latency grows and
\* a stall is handled once it exceeds the limit.  A post-seek stall seeks
\* step frames before the landing frame, or, at the start of the file, spends
\* cost retries on a new attempt from the desired frame; a mid-decode stall
\* spends cost retries likewise.  With no retry left the call breaks.
StallHandling(s, seekOk, limit, cost, step) ==
    LET s1 == [s EXCEPT !.accumDecodeLatency = @ + 1]
        retry == [s1 EXCEPT !.retriesRemaining = @ - cost,
                            !.stallRetries = @ + 1]
    IN  IF s1.accumDecodeLatency > limit
        THEN IF s1.awaitingFirstDecodeAfterSeek
             THEN IF s1.decodeNextFrameOut > 0
                  THEN SeekOrBreak(SetUpSeek(s1, s1.decodeNextFrameOut - step),
                                   s1.decodeNextFrameOut - step, seekOk)
                  ELSE IF s1.retriesRemaining > 0
                  THEN SeekOrBreak(SetUpSeek(retry, s1.frame), s1.frame, seekOk)
                  ELSE BreakWith(s1, "refframe")
             ELSE IF s1.retriesRemaining > 0
                  THEN SeekOrBreak(SetUpSeek(retry, s1.frame), s1.frame, seekOk)
                  ELSE BreakWith(s1, "stall")
        ELSE s1

DecodeStallEager(s, seekOk) ==
    StallHandling(s, seekOk, getCodecDelay(file) - 1, 1, 1)

DecodeStallFreeRetry(s, seekOk) ==
    StallHandling(s, seekOk, getCodecDelay(file), 0, 1)

DecodeStallSameTarget(s, seekOk) ==
    StallHandling(s, seekOk, getCodecDelay(file), 1, 0)

\* The stall handling of decode(): the limit is the codec delay, a retry
\* costs one, the walk back is by one frame.
DecodeStall(s, seekOk) ==
    StallHandling(s, seekOk, getCodecDelay(file), 1, 1)

\* The part of an iteration that follows the read / decode attempt.
AfterDecode(s, picture, attempted, built, seekOk) ==
    IF picture >= 0
    THEN FrameDecoded([s EXCEPT !.frameDecoded = TRUE], picture, built)
    ELSE IF attempted THEN DecodeStall(s, seekOk)
    ELSE s

\* av_init_packet: the fields are reset, nothing is released.
av_init_packet(s) == [s EXCEPT !.avPacket = "blank"]

\* av_read_frame succeeded: _avPacket owns the packet read.
ReadPacket(s, pkt) ==
    [s EXCEPT !.avPacket = IF pkt.size > 0 THEN "data" ELSE "empty"]

\* av_free_packet: what _avPacket owns is released and it is blank again.
av_free_packet(s) == [s EXCEPT !.avPacket = "blank"]

DecodeExitKeepCursor(s) ==
    LET s0 == IF ~s.hasPicture /\ s.avPacket = "data"
              THEN av_free_packet(s) ELSE s
    IN  [s0 EXCEPT !.pc = "done",
                   !.result = IF s.hasPicture THEN "true" ELSE "false",
                   !.seqCalls = IF s.hasPicture THEN @ ELSE -1]

\* The end of decode(): leaving the loop with no picture releases the
\* packet when its size is positive and resets the output cursor; the call
\* returns hasPicture.
DecodeExit(s) ==
    LET s0 == IF ~s.hasPicture /\ s.avPacket = "data"
              THEN av_free_packet(s) ELSE s
        s1 == IF ~s.hasPicture THEN [s0 EXCEPT !.decodeNextFrameOut = -1] ELSE s0
    IN  [s1 EXCEPT !.pc = "done",
                   !.result = IF s.hasPicture THEN "true" ELSE "false",
                   !.seqCalls = IF s.hasPicture THEN @ ELSE -1]

\* return false from inside decode(), bypassing the epilogue.
ReturnFalse(s) == [s EXCEPT !.pc = "done", !.result = "false", !.seqCalls = -1]

\* The end of the do-while body, which a break skips: av_free_packet and
\* while (!hasPicture); then the epilogue.
EndOfIteration(s) ==
    IF s.pc = "break" THEN DecodeExit(s)
    ELSE LET s1 == av_free_packet(s)
         IN  IF s1.hasPicture THEN DecodeExit(s1) ELSE s1

\* The synchronisation of the frame indices on a packet read while a seek
\* is in progress.  The landing is refused when the selected timestamp is
\* missing or the landing frame exceeds the seek target less slack; a
\* refused landing winds the target back by step frames and seeks again;
\* below frame 0 the reader switches from PTS to DTS (when unseen is set:
\* only if no PTS was ever seen) or gives up.
Resync(s, pkt, seekOk, slack, step, unseen) ==
    LET ts == IF s.timestampField = "pts" THEN pkt.pts ELSE pkt.dts
        landingFrame == IF ts = AV_NOPTS_VALUE THEN 0 ELSE ptsToFrame(file, ts)
        back == [s EXCEPT !.lastSeekedFrame = @ - step]
    IN  IF ts = AV_NOPTS_VALUE \/ landingFrame > s.lastSeekedFrame - slack
        THEN IF back.lastSeekedFrame < 0
             THEN IF s.timestampField = "pts" /\ (unseen => ~s.ptsSeen)
                  THEN SeekOrBreak([back EXCEPT !.timestampField = "dts",
                                                !.lastSeekedFrame = s.frame],
                                   s.frame, seekOk)
                  ELSE BreakWith(back, "timing")
             ELSE SeekOrBreak(back, back.lastSeekedFrame, seekOk)
        ELSE [s EXCEPT !.decodeNextFrameOut = landingFrame,
                       !.decodeNextFrameIn = landingFrame,
                       !.lastSeekedFrame = -1]

SyncFrameIndicesStrict(s, pkt, seekOk) == Resync(s, pkt, seekOk, 1, 1, TRUE)

SyncFrameIndicesDoubleStep(s, pkt, seekOk) == Resync(s, pkt, seekOk, 0, 2, TRUE)

SyncFrameIndicesLax(s, pkt, seekOk) == Resync(s, pkt, seekOk, -1, 1, TRUE)

SyncFrameIndicesAlwaysSwitch(s, pkt, seekOk) ==
    Resync(s, pkt, seekOk, 0, 1, FALSE)

\* Synchronise the frame indices on the first packets after a seek: the
\* landing must not lie beyond the target, the walk back is by one frame and
\* the switch to DTS needs that no PTS was ever seen.
SyncFrameIndices(s, pkt, seekOk) == Resync(s, pkt, seekOk, 0, 1, TRUE)

NotePtsAlways(s, pkt) == [s EXCEPT !.ptsSeen = TRUE]

\* A packet with a valid PTS records that the stream has PTSs.
NotePts(s, pkt) == [s EXCEPT !.ptsSeen = @ \/ (pkt.pts # AV_NOPTS_VALUE)]

\* A packet of the video stream was read: note its PTS, synchronise if a
\* seek is in progress and, with no seek in progress, feed the decoder.
VideoPacket(s, pkt, decodeOk, built, seekOk) ==
    LET s1 == NotePts(s, pkt)
        s2 == IF s1.lastSeekedFrame >= 0
              THEN SyncFrameIndices(s1, pkt, seekOk) ELSE s1
    IN  IF s2.pc = "break" THEN s2
        ELSE IF s2.lastSeekedFrame < 0
        THEN LET s3 == NoteOp([s2 EXCEPT !.decodeNextFrameIn = @ + 1,
                                         !.decodeAttempted = TRUE], "feed")
                 d == DecoderFeed(file, s3, pkt.content)
             IN  IF ~decodeOk THEN BreakWith(s3, "decode")
                 ELSE AfterDecode(d.s, d.picture, TRUE, built, seekOk)
        ELSE s2

\* The top of the do-while body: the locals of an iteration.
BeginIteration(s) ==
    [s EXCEPT !.decodeAttempted = FALSE, !.frameDecoded = FALSE]

ReadEofOffByOne(s, seekOk) ==
    LET s1 == [s EXCEPT !.frames = s.decodeNextFrameIn - 1]
    IN  IF s1.loadNearest
        THEN LET s2 == [s1 EXCEPT !.frame = s1.frames - 1]
                 s3 == seekFrame(SetUpSeek(s2, s2.frame), s2.frame, seekOk)
             IN  IF seekOk THEN s3 ELSE ReturnFalse(s3)
        ELSE s1

\* av_read_frame returned AVERROR_EOF.
ReadEof(s, seekOk) ==
    LET s1 == [s EXCEPT !.frames = s.decodeNextFrameIn]
    IN  IF s1.loadNearest
        THEN LET s2 == [s1 EXCEPT !.frame = s1.frames - 1]
                 s3 == seekFrame(SetUpSeek(s2, s2.frame), s2.frame, seekOk)
             IN  IF seekOk THEN s3 ELSE ReturnFalse(s3)
        ELSE s1

\* The decoder is pumped with an empty packet.
PumpDecoder(s, decodeOk, built, seekOk) ==
    LET s1 == NoteOp([s EXCEPT !.decodeAttempted = TRUE], "feed")
        d == DecoderDrain(s1)
    IN  IF ~decodeOk THEN BreakWith(s1, "decode")
        ELSE AfterDecode(d.s, d.picture, TRUE, built, seekOk)

\* The entry of decode(frame, loadNearest, maxRetries) up to the loop: range
\* check (clamp or throw), retry budget, initial seek.
Clamp(f, nearest, total) ==
    IF f < 0 THEN (IF nearest THEN 0 ELSE -1)
    ELSE IF f >= total THEN (IF nearest THEN total - 1 ELSE -1)
    ELSE f

ThrowsOffByOne(f, nearest, total) == ~nearest /\ (f < 0 \/ f > total)

\* The range check throws "Missing frame".
Throws(f, nearest, total) == ~nearest /\ (f < 0 \/ f >= total)

MissingFrameResetsCursor(s) ==
    [s EXCEPT !.pc = "done", !.result = "throw", !.seqCalls = -1,
              !.decodeNextFrameOut = -1]

\* throw std::runtime_error("Missing frame"): the call ends there.
MissingFrame(s) ==
    [s EXCEPT !.pc = "done", !.result = "throw", !.seqCalls = -1]

DecodeEnter(s, f, nearest, maxRetries, seekOk) ==
    LET s0 == [s EXCEPT !.prevResult = s.result,
                        !.requested = f, !.maxRetriesArg = maxRetries,
                        !.loadNearest = nearest,
                        !.framesAtCall = s.frames, !.seeksInCall = 0,
                        !.stallRetries = 0,
                        !.firstOp = "none", !.errorMsg = "",
                        !.seqCalls = IF f = @ /\ ~nearest THEN @ + 1 ELSE -1]
    IN  IF Throws(f, nearest, s.frames)
        THEN MissingFrame(s0)
        ELSE LET s1 == [s0 EXCEPT !.frame = Clamp(f, nearest, s.frames),
                                  !.retriesRemaining = IntMax(1, maxRetries),
                                  !.awaitingFirstDecodeAfterSeek = FALSE,
                                  !.lastSeekedFrame = -1,
                                  !.hasPicture = FALSE,
                                  !.result = "running"]
             IN  IF s1.frame # s1.decodeNextFrameOut
                 THEN LET s2 == seekFrame(SetUpSeek(s1, s1.frame), s1.frame, seekOk)
                      IN  IF seekOk THEN av_init_packet([s2 EXCEPT !.pc = "loop"])
                          ELSE ReturnFalse(s2)
                 ELSE av_init_packet([s1 EXCEPT !.pc = "loop"])

\* ------------------------------------------- the reader: construction
\* Most streams a container of the model holds.
MaxStreams == 2

\* AV_TIME_BASE of libavutil: the unit of AVFormatContext::duration.
AV_TIME_BASE == 1000000

Abs(x) == IF x >= 0 THEN x ELSE -x

\* Frames of a container duration at a frame rate: one unit is subtracted and
\* the quotient is rounded up.
FramesFromDurationNoSlack(duration, fpsNum, fpsDen) ==
    LET divisor == AV_TIME_BASE * fpsDen
    IN  Quot(duration * fpsNum + divisor - 1, divisor)

FramesFromDuration(duration, fpsNum, fpsDen) ==
    LET divisor == AV_TIME_BASE * fpsDen
    IN  Quot((duration - 1) * fpsNum + divisor - 1, divisor)

\* The stream's own frame count replaces a count it differs from by at most
\* one.
PreferStreamCountExact(frameCount, streamFrames) ==
    IF streamFrames > 0 /\ Abs(frameCount - streamFrames) < 1
    THEN streamFrames ELSE frameCount

PreferStreamCount(frameCount, streamFrames) ==
    IF streamFrames > 0 /\ Abs(frameCount - streamFrames) <= 1
    THEN streamFrames ELSE frameCount

\* FFmpegFile::getStreamFrames for a stream of frame rate fpsNum / fpsDen in
\* a container of the given duration: from the container duration, else the
\* stream's frame count, else the stream's duration, else measured from the
\* largest PTS read (av.lastFrame is ptsToFrame of that PTS).
getStreamFrames(duration, fpsNum, fpsDen, av) ==
    LET f1 == IF duration # 0
              THEN PreferStreamCount(
                       FramesFromDuration(duration, fpsNum, fpsDen),
                       av.nbFrames)
              ELSE 0
        f2 == IF f1 = 0 THEN av.nbFrames ELSE f1
        f3 == IF f2 = 0
              THEN Quot(av.duration * av.tbNum * fpsNum, av.tbDen * fpsDen)
              ELSE f2
    IN  IF f3 = 0 THEN 1 + av.lastFrame ELSE f3

\* The constructor's test of a container stream: a video stream for which a
\* decoder is found and opens.
Usable(av) == av.kind = "video" /\ av.decoder /\ av.opens

\* The Stream descriptor the constructor fills in for container stream i.
NewStream(i, av, duration) ==
    LET comps == IntMax(3, av.comps)
        depth == IF av.bits = 0 THEN av.bpp \div comps ELSE av.bits
    IN  [ idx |-> i, width |-> av.width, height |-> av.height,
          numberOfComponents |-> comps, bitDepth |-> depth,
          outputPixelFormat |->
              IF depth > 8
              THEN (IF comps = 4 THEN "RGBA64LE" ELSE "RGB48LE")
              ELSE (IF comps = 4 THEN "RGBA" ELSE "RGB24"),
          fpsNum |-> av.fpsNum, fpsDen |-> av.fpsDen, yuv |-> av.yuv,
          frames |-> getStreamFrames(duration, av.fpsNum, av.fpsDen, av) ]

\* Bytes the constructor allocates for _data on the first registered stream;
\* samples is the number of samples a pixel is given room for.
BufferBytes(stream, samples) ==
    stream.width * stream.height * samples
        * (IF stream.bitDepth > 8 THEN 2 ELSE 1)

AllocSizePerComponent(stream) ==
    BufferBytes(stream, stream.numberOfComponents)

AllocSize(stream) == BufferBytes(stream, 3)

\* The constructor's message when no stream was registered.
NoStreamErrorSwapped(unsupported) ==
    IF unsupported THEN "unable to find video stream"
    ELSE "unsupported codec..."

NoStreamError(unsupported) ==
    IF unsupported THEN "unsupported codec..."
    ELSE "unable to find video stream"

\* decode() and the accessors refuse a stream index that is not registered.
NoSuchStreamOffByOne(streamIdx, registered) == streamIdx > Len(registered)

NoSuchStream(streamIdx, registered) == streamIdx >= Len(registered)

\* The accessors of the first stream's fields: 0 if there is no stream.
getWidth == IF streams = << >> THEN 0 ELSE streams[1].width
getHeight == IF streams = << >> THEN 0 ELSE streams[1].height
getBitDepth == IF streams = << >> THEN 0 ELSE streams[1].bitDepth
getNumberOfComponents ==
    IF streams = << >> THEN 0 ELSE streams[1].numberOfComponents
isYUV == IF streams = << >> THEN FALSE ELSE streams[1].yuv

RowSize(sampleSizeWide) ==
    IF getBitDepth > 8
    THEN getNumberOfComponents * getWidth * sampleSizeWide
    ELSE getNumberOfComponents * getWidth

getRowSizeNarrow == RowSize(1)

\* FFmpegFile::getRowSize and FFmpegFile::getBufferSize
getRowSize == RowSize(2)

getBufferSize == getRowSize * getHeight

\* ------------------------------------------------ container metadata
\* Strings of the metadata are sequences of characters.
LowerCase ==
    << "a", "b", "c", "d", "e", "f", "g", "h", "i", "j", "k", "l", "m",
       "n", "o", "p", "q", "r", "s", "t", "u", "v", "w", "x", "y", "z" >>

UpperCase ==
    << "A", "B", "C", "D", "E", "F", "G", "H", "I", "J", "K", "L", "M",
       "N", "O", "P", "Q", "R", "S", "T", "U", "V", "W", "X", "Y", "Z" >>

\* av_toupper / the case folding of strncasecmp
ToUpper(ch) ==
    IF \E i \in 1 .. Len(LowerCase) : LowerCase[i] = ch
    THEN UpperCase[CHOOSE i \in 1 .. Len(LowerCase) : LowerCase[i] = ch]
    ELSE ch

\* The first n characters of a and b exist and are equal.
SamePrefixExact(a, b, n) ==
    /\ Len(a) >= n /\ Len(b) >= n
    /\ \A i \in 1 .. n : a[i] = b[i]

\* strncasecmp(a, b, n) == 0 for a string b of n or more characters: the
\* first n characters of a exist and equal those of b, case ignored.
SamePrefixNoCase(a, b, n) ==
    /\ Len(a) >= n /\ Len(b) >= n
    /\ \A i \in 1 .. n : ToUpper(a[i]) = ToUpper(b[i])

KeyFoundry ==
    << "u", "k", ".", "c", "o", ".", "t", "h", "e", "f", "o", "u", "n",
       "d", "r", "y", ".", "C", "o", "l", "o", "r", "s", "p", "a", "c",
       "e" >>

KeyFoundryLower ==
    << "u", "k", ".", "c", "o", ".", "t", "h", "e", "f", "o", "u", "n",
       "d", "r", "y", ".", "c", "o", "l", "o", "r", "s", "p", "a", "c",
       "e" >>

KeyArri ==
    << "c", "o", "m", ".", "a", "r", "r", "i", ".", "c", "a", "m", "e",
       "r", "a", ".", "C", "o", "l", "o", "r", "G", "a", "m", "m", "a",
       "S", "x", "S" >>

KeyArriLower ==
    << "c", "o", "m", ".", "a", "r", "r", "i", ".", "c", "a", "m", "e",
       "r", "a", ".", "c", "o", "l", "o", "r", "g", "a", "m", "m", "a",
       "s", "x", "s" >>

LogC == << "L", "O", "G", "-", "C" >>

Rec709 == << "R", "E", "C", "-", "7", "0", "9" >>

\* av_dict_get(dict, key, NULL, AV_DICT_IGNORE_SUFFIX): the first entry whose
\* key begins with the given key, case ignored (AV_DICT_MATCH_CASE is not
\* passed); << >> stands for NULL.
DictMatchesExactCase(entryKey, key) == SamePrefixExact(entryKey, key, Len(key))

DictMatches(entryKey, key) == SamePrefixNoCase(entryKey, key, Len(key))

av_dict_get(dict, key) ==
    LET hits == { i \in 1 .. Len(dict) : DictMatches(dict[i].key, key) }
    IN  IF hits = {} THEN << >> ELSE << dict[SetMin(hits)] >>

\* What getColorspace returns: the value of an entry or a literal.
EntryValue(v) == [ kind |-> "value", name |-> "", value |-> v ]
Literal(n) == [ kind |-> "literal", name |-> n, value |-> << >> ]

\* An Arri gamma value is looked at only when it is found.
ArriValueIsExact(t, prefix) ==
    t # << >> /\ SamePrefixExact(t[1].value, prefix, Len(prefix))

ArriValueIs(t, prefix) ==
    t # << >> /\ SamePrefixNoCase(t[1].value, prefix, Len(prefix))

\* FFmpegFile::getColorspace.  The lower-case lookups of the code are made
\* only when the first lookup found nothing and their result is dropped.
getColorspace ==
    IF context = "open" /\ media.hasMetadata
    THEN LET foundry == av_dict_get(media.metadata, KeyFoundry)
             arri == av_dict_get(media.metadata, KeyArri)
         IN  IF foundry # << >> THEN EntryValue(foundry[1].value)
             ELSE IF ArriValueIs(arri, LogC) THEN Literal("AlexaV3LogC")
             ELSE IF ArriValueIs(arri, Rec709) THEN Literal("rec709")
             ELSE Literal(IF isYUV THEN "Gamma2.2" ELSE "Gamma1.8")
    ELSE Literal(IF isYUV THEN "Gamma2.2" ELSE "Gamma1.8")

\* ------------------------------------------------------ what is opened
\* A container stream as the constructor sees it.
PlainVideo ==
    [ kind |-> "video", decoder |-> TRUE, opens |-> TRUE,
      width |-> 2, height |-> 2, bits |-> 8, bpp |-> 24, comps |-> 3,
      yuv |-> TRUE, fpsNum |-> 24, fpsDen |-> 1,
      nbFrames |-> 5, duration |-> 0, tbNum |-> 1, tbDen |-> 48,
      lastFrame |-> 4 ]

\* A file with one plain video stream, no metadata, duration unknown.
PlainMedia ==
    [ filenameEmpty |-> FALSE, openFails |-> FALSE, infoFails |-> FALSE,
      duration |-> 0, hasMetadata |-> FALSE, metadata |-> << >>,
      avstreams |-> << PlainVideo >> ]

SeqsUpTo(S, n) == UNION { [1 .. k -> S] : k \in 0 .. n }

\* Streams of varied size, depth and component count, and streams the
\* constructor passes over: audio, no decoder, decoder that does not open.
SizedStreams ==
    { [PlainVideo EXCEPT !.width = w, !.height = h, !.bits = f[1],
                         !.comps = f[2], !.bpp = 8 * f[2], !.yuv = (f[2] = 3)] :
        w \in {2, 3}, h \in {1, 2},
        f \in { <<0, 1>>, <<8, 3>>, <<8, 4>>, <<16, 3>>, <<16, 4>> } }

PassedOverStreams ==
    { [PlainVideo EXCEPT !.kind = "audio"],
      [PlainVideo EXCEPT !.decoder = FALSE],
      [PlainVideo EXCEPT !.opens = FALSE] }

\* The files of OpenSpec: empty filename, container that does not open,
\* stream info that cannot be read, or any list of streams.
OpenMedia ==
    { [PlainMedia EXCEPT !.filenameEmpty = TRUE, !.avstreams = << >>],
      [PlainMedia EXCEPT !.openFails = TRUE, !.avstreams = << >>],
      [PlainMedia EXCEPT !.infoFails = TRUE] }
    \cup { [PlainMedia EXCEPT !.avstreams = s] :
             s \in SeqsUpTo(SizedStreams \cup PassedOverStreams, MaxStreams) }

\* The files of FramesSpec: one video stream, varied durations, frame rates
\* and frame counts.
TimedMedia ==
    { [PlainMedia EXCEPT
          !.duration = d,
          !.avstreams = << [PlainVideo EXCEPT !.fpsNum = fps[1],
                                              !.fpsDen = fps[2],
                                              !.nbFrames = nb,
                                              !.duration = sd,
                                              !.lastFrame = lf] >>] :
        d \in {0, 1, 41666, 41667, 208333, 208334, 209000, 250000, 291667},
        fps \in { <<24, 1>>, <<25, 1>>, <<2997, 125>> },
        nb \in {0, 1, 5, 6, 7}, sd \in {0, 10}, lf \in {0, 4} }

\* The files of ColorSpec: one video stream, YUV or RGB, and metadata of up
\* to two entries, or none.
MetaKeys ==
    { KeyFoundry, KeyFoundryLower, KeyFoundry \o << "2" >>,
      KeyArri, KeyArriLower, << "t", "i", "t", "l", "e" >> }

MetaValues ==
    { << "s", "R", "G", "B" >>, LogC \o << "3" >>,
      << "l", "o", "g", "-", "c" >>, Rec709,
      << "R", "e", "c", "-", "7", "0", "9", "x" >>,
      << "L", "O", "G" >>, << >> }

TaggedMedia ==
    { [PlainMedia EXCEPT !.hasMetadata = h, !.metadata = m,
                         !.avstreams = << [PlainVideo EXCEPT !.yuv = y] >>] :
        h \in BOOLEAN, y \in BOOLEAN,
        m \in SeqsUpTo([key : MetaKeys, value : MetaValues], 2) }

\* No public call made yet.
NoCall == [ method |-> "none", value |-> 0 ]

\* The reader before its constructor has run.
ReaderNew ==
    /\ context = "null"
    /\ streams = << >>
    /\ invalidState = FALSE
    /\ dataSize = 0
    /\ dataAllocs = 0
    /\ opc = "new"
    /\ scanIdx = 0
    /\ ret = NoCall

\* The reader as the constructor leaves it on PlainMedia.
ReaderReady ==
    /\ media = PlainMedia
    /\ context = "open"
    /\ streams = << NewStream(0, PlainVideo, PlainMedia.duration) >>
    /\ invalidState = FALSE
    /\ dataSize = AllocSize(NewStream(0, PlainVideo, PlainMedia.duration))
    /\ dataAllocs = 1
    /\ opc = "ready"
    /\ scanIdx = 2
    /\ ret = NoCall

\* No thread is inside the reader.
NumThreads == 3

Threads == 1 .. NumThreads

LockIdle ==
    /\ mtBuild = TRUE
    /\ lockOwner = 0
    /\ inMethod = [t \in Threads |-> "none"]

\* ------------------------------------------------------ the state machine
\* The reader as FFmpegFile::FFmpegFile leaves it on a container with one
\* usable video stream: _frames as advertised, cursors unknown, PTS selected.
Opened(c) == c @@ Profile(c.audio)

\* The descriptor and the bookkeeping of calls before the first decode().
DescriptorInit ==
    /\ frames = file.adv
    /\ decodeNextFrameIn = -1
    /\ decodeNextFrameOut = -1
    /\ accumDecodeLatency = 0
    /\ timestampField = "pts"
    /\ ptsSeen = FALSE
    /\ convertCtx = FALSE
    /\ data = -1
    /\ filePos = 1
    /\ decoderQueue = << >>
    /\ decoderSynced = FALSE
    /\ avPacket = "blank"
    /\ pc = "idle"
    /\ frame = 0
    /\ loadNearest = FALSE
    /\ retriesRemaining = 0
    /\ lastSeekedFrame = -1
    /\ awaitingFirstDecodeAfterSeek = FALSE
    /\ hasPicture = FALSE
    /\ decodeAttempted = FALSE
    /\ frameDecoded = FALSE
    /\ result = "none"
    /\ errorMsg = ""
    /\ requested = 0
    /\ maxRetriesArg = 0
    /\ framesAtCall = file.adv
    /\ seeksInCall = 0
    /\ stallRetries = 0
    /\ firstOp = "none"
    /\ prevResult = "none"
    /\ seqCalls = 0
    /\ totalSeeks = 0

Init ==
    /\ file \in { Opened(c) : c \in Containers }
    /\ DescriptorInit
    /\ ReaderReady
    /\ LockIdle
    /\ ScalerIdle

FrameArgs == -1 .. (MaxFrames + 1)

OtherStreamPacketCounted(s) ==
    [s EXCEPT !.filePos = @ + 1, !.accumDecodeLatency = @ + 1]

\* A packet of another stream was read: nothing is done with it.
OtherStreamPacket(s) == [s EXCEPT !.filePos = @ + 1]

\* decode(frame, loadNearest, maxRetries) is called.
DecodeCall ==
    /\ pc = "idle"
    /\ \E f \in FrameArgs, nearest \in BOOLEAN, maxRetries \in RetryValues,
          seekOk \in BOOLEAN :
          Store(DecodeEnter(State, f, nearest, maxRetries, seekOk))

\* An iteration in which av_read_frame reports the end of the file.
ReadEndOfFile ==
    /\ pc = "loop"
    /\ decodeNextFrameIn < frames
    /\ filePos > NumPackets(file)
    /\ \E seekOk \in BOOLEAN : Store(ReadEof(NoteOp(BeginIteration(State), "read"), seekOk))

\* An iteration in which av_read_frame fails.
ReadFailed ==
    /\ pc = "loop"
    /\ decodeNextFrameIn < frames
    /\ Store(EndOfIteration(
           BreakWith(NoteOp(BeginIteration(State), "read"), "read")))

\* An iteration that reads a packet of another stream.
ReadOtherStream ==
    /\ pc = "loop"
    /\ decodeNextFrameIn < frames
    /\ filePos <= NumPackets(file)
    /\ ~IsVideoPos(file, filePos)
    /\ Store(EndOfIteration(
           OtherStreamPacket(
               ReadPacket(NoteOp(BeginIteration(State), "read"),
                          PacketAt(file, filePos)))))

\* An iteration that reads a packet of the video stream.
ReadVideoPacket ==
    /\ pc = "loop"
    /\ decodeNextFrameIn < frames
    /\ filePos <= NumPackets(file)
    /\ IsVideoPos(file, filePos)
    /\ \E decodeOk \in BOOLEAN, built \in BOOLEAN, seekOk \in BOOLEAN :
          Store(EndOfIteration(
              VideoPacket(
                  [ReadPacket(NoteOp(BeginIteration(State), "read"),
                              PacketAt(file, filePos))
                      EXCEPT !.filePos = @ + 1],
                  PacketAt(file, filePos), decodeOk, built, seekOk)))

\* An iteration that feeds the decoder an empty packet.
PumpRemaining ==
    /\ pc = "loop"
    /\ ~(decodeNextFrameIn < frames)
    /\ \E decodeOk \in BOOLEAN, built \in BOOLEAN, seekOk \in BOOLEAN :
          Store(EndOfIteration(
              PumpDecoder(BeginIteration(State), decodeOk, built, seekOk)))

\* The call is over: its locals go out of scope.
ForgetLocals(s) ==
    [s EXCEPT !.pc = "idle", !.frame = 0, !.loadNearest = FALSE,
              !.retriesRemaining = 0, !.lastSeekedFrame = -1,
              !.awaitingFirstDecodeAfterSeek = FALSE, !.hasPicture = FALSE,
              !.decodeAttempted = FALSE, !.frameDecoded = FALSE,
              !.errorMsg = "", !.requested = 0, !.maxRetriesArg = 0,
              !.framesAtCall = s.frames, !.seeksInCall = 0,
              !.stallRetries = 0,
              !.firstOp = "none", !.prevResult = "none",
              !.totalSeeks = IF s.seqCalls < 0 THEN 0 ELSE @]

DecodeReturn ==
    /\ pc = "done"
    /\ Store(ForgetLocals(State))

LoopIteration ==
    \/ ReadEndOfFile
    \/ ReadFailed
    \/ ReadOtherStream
    \/ ReadVideoPacket
    \/ PumpRemaining

Next == DecodeCall \/ LoopIteration \/ DecodeReturn

Spec == Init /\ [][Next]_vars

\* A call in progress keeps running: decode() is synchronous code under the
\* reader's lock.
FairSpec == Spec /\ WF_vars(LoopIteration) /\ WF_vars(DecodeReturn)

\* ------------------------------------- construction and the accessors
\* setError and setInternalError (FFmpegFile.h): the message is recorded and
\* the reader becomes invalid.
setError(msg) == [ errorMsg |-> msg, invalidState |-> TRUE ]

\* A one-frame file, for the specifications that do not follow decode().
PlainFile ==
    Opened([ n |-> 1, adv |-> 1, keys |-> {0}, real |-> {0}, bad |-> {},
             ts |-> "both", audio |-> FALSE, delay |-> 0, ovs |-> -1 ])

\* FFmpegFile::FFmpegFile up to the loop over the container's streams: an
\* empty filename makes the reader invalid; a container that does not open,
\* or whose stream info cannot be read, records the library's error.
OpenContainer ==
    /\ opc = "new"
    /\ IF media.filenameEmpty
       THEN /\ invalidState' = TRUE
            /\ opc' = "ready"
            /\ UNCHANGED << context, errorMsg, scanIdx >>
       ELSE IF media.openFails \/ media.infoFails
       THEN /\ errorMsg' = setError("internal").errorMsg
            /\ invalidState' = setError("internal").invalidState
            /\ context' = IF media.openFails THEN "null" ELSE "open"
            /\ opc' = "ready"
            /\ UNCHANGED scanIdx
       ELSE /\ context' = "open"
            /\ opc' = "scan"
            /\ scanIdx' = 1
            /\ UNCHANGED << errorMsg, invalidState >>
    /\ UNCHANGED << media, streams, dataSize, dataAllocs, ret, lockVars,
                    scalerVars,
                    descriptorVars, data, firstOp >>

\* One iteration of the constructor's loop: a usable stream gets a
\* descriptor; the first descriptor makes the constructor allocate _data.
ScanStream ==
    /\ opc = "scan"
    /\ scanIdx <= Len(media.avstreams)
    /\ LET av == media.avstreams[scanIdx]
           stream == NewStream(scanIdx - 1, av, media.duration)
       IN  IF Usable(av)
           THEN /\ streams' = Append(streams, stream)
                /\ dataSize' = IF streams = << >> THEN AllocSize(stream)
                               ELSE dataSize
                /\ dataAllocs' = IF streams = << >> THEN dataAllocs + 1
                                 ELSE dataAllocs
           ELSE UNCHANGED << streams, dataSize, dataAllocs >>
    /\ scanIdx' = scanIdx + 1
    /\ UNCHANGED << media, context, invalidState, opc, ret, lockVars,
                    scalerVars,
                    decodeVars >>

\* The end of the constructor: with no descriptor the error is set;
\* unsuported_codec is never set by the loop.
FinishOpen ==
    /\ opc = "scan"
    /\ scanIdx > Len(media.avstreams)
    /\ IF streams = << >>
       THEN /\ errorMsg' = setError(NoStreamError(FALSE)).errorMsg
            /\ invalidState' = setError(NoStreamError(FALSE)).invalidState
       ELSE UNCHANGED << errorMsg, invalidState >>
    /\ opc' = "ready"
    /\ UNCHANGED << media, context, streams, dataSize, dataAllocs, scanIdx,
                    ret, lockVars, scalerVars, descriptorVars, data, firstOp >>

\* decode() on the reader: refused with false when stream 0 is not
\* registered.  Past the refusal the call works on _streams[0]; what it does
\* to the descriptor is the subject of Spec, here it returns one of its
\* results, makes library calls and writes into _data on success.
\* _streams[0] of an empty vector is undefined: any of these, or a crash.
DecodeOnReader ==
    /\ opc = "ready"
    /\ IF NoSuchStream(0, streams)
       THEN /\ ret' = [ method |-> "decode", value |-> "false" ]
            /\ firstOp' = "none"
            /\ UNCHANGED data
       ELSE \E outcome \in {"true", "false", "throw", "crash"} :
               /\ outcome = "crash" => streams = << >>
               /\ ret' = [ method |-> "decode", value |-> outcome ]
               /\ firstOp' = IF outcome = "throw" THEN "none" ELSE "seek"
               /\ data' = IF outcome = "true" THEN 0 ELSE data
    /\ UNCHANGED << media, context, streams, invalidState, dataSize,
                    dataAllocs, opc, scanIdx, lockVars, scalerVars,
                    descriptorVars,
                    errorMsg >>

\* getRowSize(), getBufferSize() and getColorspace() on the reader.
GetRowSize ==
    /\ opc = "ready"
    /\ ret' = [ method |-> "getRowSize", value |-> getRowSize ]
    /\ UNCHANGED << media, context, streams, invalidState, dataSize,
                    dataAllocs, opc, scanIdx, lockVars, scalerVars, decodeVars >>

GetBufferSize ==
    /\ opc = "ready"
    /\ ret' = [ method |-> "getBufferSize", value |-> getBufferSize ]
    /\ UNCHANGED << media, context, streams, invalidState, dataSize,
                    dataAllocs, opc, scanIdx, lockVars, scalerVars, decodeVars >>

GetColorspace ==
    /\ opc = "ready"
    /\ ret' = [ method |-> "getColorspace", value |-> getColorspace ]
    /\ UNCHANGED << media, context, streams, invalidState, dataSize,
                    dataAllocs, opc, scanIdx, lockVars, scalerVars, decodeVars >>

\* FFmpegFile::~FFmpegFile: the descriptors are deleted, an open container
\* is closed, the error is cleared and _data is deleted.
Destroy ==
    /\ opc = "ready"
    /\ streams' = << >>
    /\ context' = IF context = "open" THEN "closed" ELSE context
    /\ errorMsg' = ""
    /\ invalidState' = FALSE
    /\ dataSize' = 0
    /\ opc' = "destroyed"
    /\ UNCHANGED << media, dataAllocs, scanIdx, ret, lockVars, scalerVars,
                    descriptorVars, data, firstOp >>

ReaderNext ==
    \/ OpenContainer
    \/ ScanStream
    \/ FinishOpen
    \/ DecodeOnReader
    \/ GetRowSize
    \/ GetBufferSize
    \/ GetColorspace
    \/ Destroy

\* The decode() state of a reader the specifications below do not follow.
DescriptorIdle ==
    /\ file = PlainFile
    /\ DescriptorInit

\* Construction, calls and destruction of a reader on the files of OpenMedia.
OpenInit ==
    /\ media \in OpenMedia
    /\ ReaderNew
    /\ LockIdle
    /\ ScalerIdle
    /\ DescriptorIdle

OpenSpec == OpenInit /\ [][ReaderNext]_vars

\* The same on the files of TimedMedia.
FramesInit ==
    /\ media \in TimedMedia
    /\ ReaderNew
    /\ LockIdle
    /\ ScalerIdle
    /\ DescriptorIdle

FramesSpec == FramesInit /\ [][ReaderNext]_vars

\* The same on the files of TaggedMedia.
ColorInit ==
    /\ media \in TaggedMedia
    /\ ReaderNew
    /\ LockIdle
    /\ ScalerIdle
    /\ DescriptorIdle

ColorSpec == ColorInit /\ [][ReaderNext]_vars

\* ------------------------------------------------------------ the mutex
\* The public methods of a reader.
Methods ==
    { "decode", "getInfo", "getFPS", "getColorspace", "getError",
      "isInvalid", "destructor" }

\* The method starts by taking _lock: an AutoMutex guard under
\* OFX_IO_MT_FFMPEG in every public method but getColorspace, which has none.
TakesLock(method) == mtBuild /\ method # "getColorspace"

\* A thread enters a public method, waiting for the lock if the method
\* takes it.
EnterMethod ==
    \E t \in Threads, m \in Methods :
        /\ inMethod[t] = "none"
        /\ IF TakesLock(m)
           THEN lockOwner = 0 /\ lockOwner' = t
           ELSE UNCHANGED lockOwner
        /\ inMethod' = [inMethod EXCEPT ![t] = m]
        /\ UNCHANGED << mtBuild, readerVars, decodeVars, scalerVars >>

\* A thread returns from its method; the guard, if any, releases the lock.
LeaveMethod ==
    \E t \in Threads :
        /\ inMethod[t] # "none"
        /\ lockOwner' = IF lockOwner = t THEN 0 ELSE lockOwner
        /\ inMethod' = [inMethod EXCEPT ![t] = "none"]
        /\ UNCHANGED << mtBuild, readerVars, decodeVars, scalerVars >>

LockInit ==
    /\ mtBuild \in BOOLEAN
    /\ lockOwner = 0
    /\ inMethod = [t \in Threads |-> "none"]
    /\ ReaderReady
    /\ DescriptorIdle
    /\ ScalerIdle

LockNext == EnterMethod \/ LeaveMethod

LockSpec == LockInit /\ [][LockNext]_vars

\* ------------------------------------------------------------ properties
\* A sound container: every advertised frame has data, every flagged
\* key-frame is one, every packet decodes and carries PTS and DTS, and the
\* index never overshoots.
SoundContainer == Anomalies(file) = 0

\* The call failed on an error of av_seek_frame, av_read_frame or
\* avcodec_decode_video2.
IoFailure == errorMsg \in {"seek", "read", "decode"}

\* The frame argument lies in [0, total_frames) as the call found it.
ValidRequest == requested >= 0 /\ requested < framesAtCall

\* C1: whenever decode returns true the output buffer holds the picture of
\* the requested frame (as clamped).
C1_BufferHoldsRequestedFrame ==
    (pc = "done" /\ result = "true") => data = frame

\* C2 as stated: for every valid f, decode(f, false, 1) returns true and
\* leaves decode_next_frame_out = f + 1.
C2_ValidFrameAlwaysDecodes ==
    (pc = "done" /\ ValidRequest /\ ~loadNearest)
        => (result = "true" /\ decodeNextFrameOut = requested + 1)

\* C2 amended: for every valid f, a decode(f, false, r) that returns true
\* leaves decode_next_frame_out = f + 1, and on a sound container the call
\* returns true unless a library call (seek, read, decode) fails.
C2_ValidFrameDecodesOnSoundContainer ==
    (pc = "done" /\ ValidRequest /\ ~loadNearest)
        => /\ result = "true" => decodeNextFrameOut = requested + 1
           /\ SoundContainer => (result = "true" \/ IoFailure)

C2_Witness ==
    /\ pc = "done" /\ SoundContainer /\ ~loadNearest
    /\ IntMax(1, maxRetriesArg) = 1
    /\ requested = file.adv - 1 /\ requested > 0
    /\ prevResult = "true"
    /\ result = "true" /\ decodeNextFrameOut = requested + 1

\* C3: with load_nearest false a frame outside [0, total_frames) makes decode
\* throw "Missing frame": no library call is made and no picture delivered.
C3_OutOfRangeThrows ==
    (pc # "idle" /\ ~loadNearest /\ ~ValidRequest)
        => (pc = "done" /\ result = "throw" /\ firstOp = "none"
            /\ seeksInCall = 0 /\ ~hasPicture)

C3_Witness ==
    /\ pc = "done" /\ result = "throw" /\ ~loadNearest
    /\ requested = framesAtCall /\ prevResult = "true"

\* C4: with load_nearest true a request below 0 delivers frame 0 and a
\* request at or beyond total_frames delivers frame total_frames - 1 (the
\* count as decode leaves it).
C4_ClampedRequestDeliversNearest ==
    (pc = "done" /\ result = "true" /\ loadNearest)
        => /\ requested < 0 => data = 0
           /\ requested >= framesAtCall => data = frames - 1

\* C5: every decode call terminates.  Rank is a tuple of naturals that
\* every iteration which stays in the loop makes strictly smaller in the
\* lexicographic order, so no call iterates for ever.
Rank ==
    << frames + 1,
       IF timestampField = "pts" /\ ~ptsSeen THEN 1 ELSE 0,
       retriesRemaining,
       IF lastSeekedFrame >= 0 THEN lastSeekedFrame + 1
       ELSE IF awaitingFirstDecodeAfterSeek /\ decodeNextFrameOut >= 0
            THEN decodeNextFrameOut + 1 ELSE 0,
       NumPackets(file) + 1 - filePos,
       Len(decoderQueue) + getCodecDelay(file) - accumDecodeLatency >>

LexLess(a, b) ==
    \E i \in 1 .. Len(a) :
        /\ a[i] < b[i]
        /\ \A j \in 1 .. (i - 1) : a[j] = b[j]

C5_DecodeTerminates ==
    [][ /\ pc = "loop" => \A i \in 1 .. Len(Rank) : Rank[i] >= 0
        /\ (pc = "loop" /\ pc' = "loop") => LexLess(Rank', Rank) ]_vars

C5_Witness ==
    /\ pc = "done" /\ result = "false" /\ errorMsg = "stall"
    /\ maxRetriesArg = 2 /\ retriesRemaining = 0

\* C6 as stated: a call issues at most max(1, max_retries) + total_frames
\* seeks.
C6_SeeksWithinRetriesPlusFrames ==
    seeksInCall <= IntMax(1, maxRetriesArg) + framesAtCall

\* C6 amended: a call issues at most
\* (max(1, max_retries) + total_frames + 3) * max(1, total_frames) seeks.
C6_SeeksBounded ==
    seeksInCall <= (IntMax(1, maxRetriesArg) + framesAtCall + 3)
                       * IntMax(1, framesAtCall)

C6_Witness ==
    /\ pc = "done"
    /\ seeksInCall > IntMax(1, maxRetriesArg) + framesAtCall

\* C7: a decode call that returns false leaves decode_next_frame_out = -1.
C7_FailureResetsCursor ==
    (pc = "done" /\ result = "false") => decodeNextFrameOut = -1

C7_Witness ==
    /\ pc = "done" /\ result = "false" /\ errorMsg = "seek"
    /\ prevResult = "true" /\ decodeNextFrameOut = -1

\* C8: the call that follows a call that returned false seeks before it
\* reads a packet or feeds the decoder.
C8_SeekFirstAfterFailure ==
    (pc # "idle" /\ prevResult = "false" /\ result # "throw")
        => (firstOp = "seek" /\ seeksInCall >= 1)

C8_Witness ==
    /\ pc = "done" /\ prevResult = "false" /\ result = "true"
    /\ firstOp = "seek" /\ seeksInCall = 1

\* C9 as stated: after a failed decode the following decode of a valid frame
\* succeeds.
C9_NextDecodeSucceeds ==
    (pc = "done" /\ prevResult = "false" /\ ValidRequest) => result = "true"

\* C9 amended: after a failed decode, the following decode of a valid frame
\* on a sound container succeeds unless a library call fails during it.
C9_NextDecodeSucceedsOnSoundContainer ==
    (SoundContainer /\ pc = "done" /\ prevResult = "false" /\ ValidRequest)
        => (result = "true" \/ IoFailure)

C9_Witness ==
    /\ SoundContainer /\ pc = "done" /\ prevResult = "false"
    /\ ValidRequest /\ result = "true" /\ getCodecDelay(file) = 1

\* C10 as stated: a sequential read 0, 1, .. of a fresh reader issues at
\* most one seek in total.
C10_SequentialReadSeeksOnce ==
    seqCalls >= 0 => totalSeeks <= 1

\* C10 amended: on a sound container a sequential read 0, 1, .. of a fresh
\* reader issues at most one seek in total, the one of its first call.
C10_SequentialReadSeeksOnceOnSoundContainer ==
    (SoundContainer /\ seqCalls >= 0)
        => (totalSeeks <= 1 /\ (seqCalls >= 2 => seeksInCall = 0))

C10_Witness ==
    /\ SoundContainer /\ pc = "done" /\ result = "true"
    /\ file.adv = MaxFrames /\ seqCalls = file.adv /\ totalSeeks = 1

FreshState ==
    [ frames |-> file.adv, decodeNextFrameIn |-> -1,
      decodeNextFrameOut |-> -1, accumDecodeLatency |-> 0,
      timestampField |-> "pts", ptsSeen |-> FALSE, convertCtx |-> FALSE,
      data |-> -1, filePos |-> 1, decoderQueue |-> << >>,
      decoderSynced |-> FALSE, avPacket |-> "blank", pc |-> "idle",
      frame |-> 0,
      loadNearest |-> FALSE, retriesRemaining |-> 0, lastSeekedFrame |-> -1,
      awaitingFirstDecodeAfterSeek |-> FALSE, hasPicture |-> FALSE,
      decodeAttempted |-> FALSE, frameDecoded |-> FALSE,
      result |-> "none", errorMsg |-> "", requested |-> 0,
      maxRetriesArg |-> 0, framesAtCall |-> file.adv, seeksInCall |-> 0,
      stallRetries |-> 0, firstOp |-> "none", prevResult |-> "none",
      seqCalls |-> 0, totalSeeks |-> 0 ]

\* One iteration of the loop of decode() when no library call fails and the
\* convert context can be built.
LoopStep(s0) ==
    LET s == BeginIteration(s0)
    IN  IF s.decodeNextFrameIn < s.frames
        THEN IF s.filePos > NumPackets(file)
             THEN ReadEof(NoteOp(s, "read"), TRUE)
             ELSE IF ~IsVideoPos(file, s.filePos)
             THEN EndOfIteration(
                      OtherStreamPacket(
                          ReadPacket(NoteOp(s, "read"),
                                     PacketAt(file, s.filePos))))
             ELSE EndOfIteration(
                      VideoPacket(
                          [ReadPacket(NoteOp(s, "read"),
                                      PacketAt(file, s.filePos))
                              EXCEPT !.filePos = @ + 1],
                          PacketAt(file, s.filePos), TRUE, TRUE, TRUE))
        ELSE EndOfIteration(PumpDecoder(s, TRUE, TRUE, TRUE))

RECURSIVE RunLoop(_)
RunLoop(s) == IF s.pc = "loop" THEN RunLoop(LoopStep(s)) ELSE s

\* What a call delivers: how it ends and, on success, the frame in _data.
Outcome(s) == << s.result, IF s.result = "true" THEN s.data ELSE -1 >>

\* What decode(f, nearest, maxRetries) delivers as the first call on the
\* reader.
FreshOutcome(f, nearest, maxRetries) ==
    Outcome(RunLoop(DecodeEnter(FreshState, f, nearest, maxRetries, TRUE)))

\* The call made no library call that failed and had a convert context for
\* its picture.
Undisturbed ==
    /\ pc = "done" /\ ~IoFailure
    /\ result = "true" => convertCtx

\* C12: what decode(f, load_nearest, max_retries) delivers does not depend on
\* the calls made before it: it is what the same call delivers as the first
\* call on the reader.
C12_ResultIndependentOfHistory ==
    Undisturbed
        => Outcome(State) = FreshOutcome(requested, loadNearest, maxRetriesArg)

\* C20: in every state of the descriptor decode_next_frame_out is at most
\* decode_next_frame_in whenever both are non-negative, the phase in which
\* the decoder is fed empty packets included.
C20_OutNeverAheadOfIn ==
    (decodeNextFrameOut >= 0 /\ decodeNextFrameIn >= 0)
        => decodeNextFrameOut <= decodeNextFrameIn

C20_Witness ==
    /\ pc = "done" /\ result = "true" /\ getCodecDelay(file) = 1
    /\ data = frames - 1 /\ decodeNextFrameIn = frames
    /\ decodeNextFrameOut = decodeNextFrameIn /\ frames = MaxFrames

\* The construction of the reader ends in invalid state: empty filename,
\* container or stream info not readable, or no usable video stream.
ConstructedInvalid ==
    \/ media.filenameEmpty
    \/ media.openFails
    \/ media.infoFails
    \/ \A i \in 1 .. Len(media.avstreams) : ~Usable(media.avstreams[i])

\* C13: a reader whose construction ended in invalid state reports it, and
\* every decode call on it returns false without a library call, without
\* writing the buffer and without touching the reader; destroying it leaves
\* no descriptor, no buffer and no open container.
C13_InvalidReaderRefusesDecode ==
    [][ /\ (opc' = "ready" /\ ConstructedInvalid)
            => (invalidState' /\ streams' = << >>)
        /\ (opc = "ready" /\ opc' = "ready" /\ ConstructedInvalid
                /\ ret'.method = "decode")
            => /\ ret'.value = "false"
               /\ firstOp' = "none"
               /\ UNCHANGED << data, dataSize, dataAllocs, streams, context,
                               invalidState, errorMsg, descriptorVars >>
        /\ (opc' = "destroyed" /\ ConstructedInvalid)
            => (streams' = << >> /\ dataSize' = 0 /\ context' # "open") ]_vars

C13_Witness ==
    /\ opc = "destroyed" /\ media.infoFails /\ context = "closed"
    /\ ret.method = "decode" /\ ret.value = "false"

\* Bytes of a picture of 3 samples per pixel at the descriptor's size and
\* sample width.
ThreeSampleBytes(stream) ==
    stream.width * stream.height * 3 * (IF stream.bitDepth > 8 THEN 2 ELSE 1)

\* C17: the output buffer is allocated exactly once, when the first usable
\* stream is registered, with width * height * 3 * (1 or 2) bytes of that
\* stream; registering further streams and decode calls leave it as it is.
C17_BufferAllocatedOnce ==
    [][ /\ (dataAllocs' # dataAllocs
                \/ (dataSize' # dataSize /\ opc' # "destroyed"))
            => /\ opc = "scan" /\ streams = << >> /\ Len(streams') = 1
               /\ dataAllocs = 0 /\ dataAllocs' = 1
        /\ (opc' # "destroyed" /\ streams' # << >>)
            => /\ dataAllocs' = 1
               /\ dataSize' = ThreeSampleBytes(streams'[1])
        /\ (opc' # "destroyed" /\ streams' = << >>)
            => (dataAllocs' = 0 /\ dataSize' = 0) ]_vars

C17_Witness ==
    /\ opc = "ready" /\ Len(streams) = 2
    /\ streams[1].width = 3 /\ streams[1].height = 2
    /\ streams[1].bitDepth = 16 /\ streams[1].numberOfComponents = 4
    /\ streams[2].width = 2 /\ streams[2].bitDepth = 8
    /\ ret.method = "decode" /\ ret.value = "true"
    /\ dataAllocs = 1 /\ dataSize = 36

\* The container was opened and its stream info read.
ContainerRead ==
    ~media.filenameEmpty /\ ~media.openFails /\ ~media.infoFails

AudioOnly ==
    /\ media.avstreams # << >>
    /\ \A i \in 1 .. Len(media.avstreams) : media.avstreams[i].kind = "audio"

\* C18: when opening a container registers no stream descriptor the error is
\* "unsupported codec..." or "unable to find video stream"; a container of
\* audio streams only leaves the reader invalid with "unable to find video
\* stream".
C18_NoStreamError ==
    (opc = "ready" /\ ContainerRead)
        => /\ streams = << >>
               => /\ invalidState
                  /\ errorMsg \in { "unsupported codec...",
                                    "unable to find video stream" }
           /\ AudioOnly
               => /\ streams = << >>
                  /\ invalidState
                  /\ errorMsg = "unable to find video stream"

C18_Witness ==
    /\ opc = "ready" /\ ContainerRead /\ AudioOnly
    /\ Len(media.avstreams) = 2
    /\ errorMsg = "unable to find video stream" /\ invalidState

\* C16: with a stream registered, getRowSize() is the number of components
\* times the width times the sample size (1 up to 8 bits, else 2), and
\* getBufferSize() is that row size times the height.
C16_RowAndBufferSize ==
    (opc = "ready" /\ streams # << >>)
        => LET s == streams[1]
               row == s.numberOfComponents * s.width
                          * (IF s.bitDepth <= 8 THEN 1 ELSE 2)
           IN  /\ ret.method = "getRowSize" => ret.value = row
               /\ ret.method = "getBufferSize" => ret.value = row * s.height

C16_Witness ==
    /\ opc = "ready" /\ Len(streams) = 2
    /\ streams[1].numberOfComponents = 4 /\ streams[1].bitDepth = 16
    /\ streams[1].width = 3 /\ streams[1].height = 2
    /\ ret.method = "getBufferSize" /\ ret.value = 48

\* The frame count the container duration gives for the first stream, and
\* the count chosen between it and the stream's own.
DurationFrames ==
    LET av == media.avstreams[1]
        divisor == AV_TIME_BASE * av.fpsDen
    IN  ((media.duration - 1) * av.fpsNum + divisor - 1) \div divisor

ChosenFrames ==
    LET nb == media.avstreams[1].nbFrames
    IN  IF nb > 0 /\ DurationFrames - nb \in {-1, 0, 1}
        THEN nb ELSE DurationFrames

Registered == opc = "ready" /\ streams # << >>

\* C15 as stated: with a non-zero container duration total_frames is the
\* count chosen between the duration's and the stream's.
C15_FramesFromDuration ==
    (Registered /\ media.duration # 0) => streams[1].frames = ChosenFrames

\* C15 amended: that holds when the chosen count is not zero; a chosen count
\* of zero means unknown, and the stream's own count is used if it has one.
C15_FramesFromDurationUnlessZero ==
    (Registered /\ media.duration # 0)
        => /\ ChosenFrames # 0 => streams[1].frames = ChosenFrames
           /\ (ChosenFrames = 0 /\ media.avstreams[1].nbFrames # 0)
               => streams[1].frames = media.avstreams[1].nbFrames

C15_Witness ==
    /\ Registered
    /\ media.duration = 209000
    /\ media.avstreams[1].fpsNum = 24 /\ media.avstreams[1].fpsDen = 1
    /\ media.avstreams[1].nbFrames = 5
    /\ DurationFrames = 6
    /\ streams[1].frames = 5

\* s with its letters in upper case; s begins with p, as written or with the
\* case of letters ignored.
Folded(s) == [ i \in 1 .. Len(s) |-> ToUpper(s[i]) ]

BeginsWith(s, p) == Len(s) >= Len(p) /\ SubSeq(s, 1, Len(p)) = p

BeginsWithNoCase(s, p) == BeginsWith(Folded(s), Folded(p))

\* The metadata of the file (none if it has no dictionary) and the values of
\* its first entry whose key begins with the given name, case ignored.
Dictionary == IF media.hasMetadata THEN media.metadata ELSE << >>

Tagged(key) ==
    { i \in 1 .. Len(Dictionary) : BeginsWithNoCase(Dictionary[i].key, key) }

FirstTagged(key) ==
    Dictionary[CHOOSE i \in Tagged(key) : \A j \in Tagged(key) : i <= j].value

NamedColorspace(n) == [ kind |-> "literal", name |-> n, value |-> << >> ]

FallbackColorspace ==
    NamedColorspace(IF media.avstreams[1].yuv THEN "Gamma2.2" ELSE "Gamma1.8")

Answered == opc = "ready" /\ ret.method = "getColorspace"

\* C19 as stated: a Foundry key yields its value; otherwise an Arri key
\* yields "AlexaV3LogC" if its value begins with "LOG-C" and "rec709" if it
\* begins with "REC-709"; otherwise the fallback, by YUV or RGB.
C19_ColorspaceByPrefix ==
    Answered =>
        ret.value =
            IF Tagged(KeyFoundry) # {}
            THEN [ kind |-> "value", name |-> "",
                   value |-> FirstTagged(KeyFoundry) ]
            ELSE IF Tagged(KeyArri) # {}
                    /\ BeginsWith(FirstTagged(KeyArri), LogC)
            THEN NamedColorspace("AlexaV3LogC")
            ELSE IF Tagged(KeyArri) # {}
                    /\ BeginsWith(FirstTagged(KeyArri), Rec709)
            THEN NamedColorspace("rec709")
            ELSE FallbackColorspace

\* C19 amended: the same with the prefixes of the Arri value compared with
\* the case of letters ignored; a key is the first entry, in the order of the
\* dictionary, whose name begins with the key's name, case ignored.
C19_ColorspaceByPrefixNoCase ==
    Answered =>
        ret.value =
            IF Tagged(KeyFoundry) # {}
            THEN [ kind |-> "value", name |-> "",
                   value |-> FirstTagged(KeyFoundry) ]
            ELSE IF Tagged(KeyArri) # {}
                    /\ BeginsWithNoCase(FirstTagged(KeyArri), LogC)
            THEN NamedColorspace("AlexaV3LogC")
            ELSE IF Tagged(KeyArri) # {}
                    /\ BeginsWithNoCase(FirstTagged(KeyArri), Rec709)
            THEN NamedColorspace("rec709")
            ELSE FallbackColorspace

\* A lower-case Arri key after an unrelated entry, its value in lower case.
C19_Witness ==
    /\ Answered
    /\ Len(Dictionary) = 2
    /\ Dictionary[1].key = << "t", "i", "t", "l", "e" >>
    /\ Dictionary[2].key = KeyArriLower
    /\ Dictionary[2].value = << "l", "o", "g", "-", "c" >>
    /\ ret.value = NamedColorspace("AlexaV3LogC")

\* C14: in a build with the mutex (OFX_IO_MT_FFMPEG defined) every thread
\* inside a public method holds the reader's mutex, so at most one thread is
\* inside a public method at any time.
C14_MethodsHoldLock ==
    mtBuild =>
        /\ \A t \in Threads : inMethod[t] # "none" => lockOwner = t
        /\ Cardinality({ t \in Threads : inMethod[t] # "none" }) <= 1

\* C21: when decode has converted a picture (hasPicture set, the call
\* returning true) the cursor it was converted at, the one before the
\* advance, is the desired frame and lies in [0, total_frames), also when
\* total_frames was corrected and the frame reclamped during the call.
C21_PictureCursorInRange ==
    (pc = "done" /\ result = "true")
        => /\ hasPicture /\ frameDecoded
           /\ decodeNextFrameOut - 1 = frame
           /\ 0 <= decodeNextFrameOut - 1
           /\ decodeNextFrameOut - 1 < frames

C21_Witness ==
    /\ pc = "done" /\ result = "true" /\ loadNearest
    /\ requested >= framesAtCall
    /\ frames = framesAtCall - 1 /\ frames = MaxFrames - 1
    /\ frame = frames - 1 /\ decodeNextFrameOut = frames

\* An iteration fed the decoder (a packet or a drain), got no frame and no
\* decode error: the iteration reaches the handling of lines 1129-1202.
FedWithoutFrame ==
    /\ pc = "loop"
    /\ decodeAttempted' /\ ~frameDecoded' /\ errorMsg' # "decode"

\* C22: accum_decode_latency is incremented by each feed that emits no
\* frame, and is zero after every frame emission and after every seek.
C22_LatencyCountsConsecutiveMisses ==
    [][ /\ (pc = "loop" /\ frameDecoded') => accumDecodeLatency' = 0
        /\ seeksInCall' > seeksInCall => accumDecodeLatency' = 0
        /\ (FedWithoutFrame /\ seeksInCall' = seeksInCall)
            => accumDecodeLatency' = accumDecodeLatency + 1 ]_vars

\* The iteration declared a decode stall: it made the recovery seek or broke
\* out with one of the two stall errors.
StallDeclared ==
    \/ seeksInCall' = seeksInCall + 1
    \/ errorMsg' \in {"stall", "refframe"}

\* C23: a feed that emits no frame declares a stall exactly when the
\* incremented latency exceeds the codec delay; otherwise the iteration only
\* increments the latency: no seek, no failure.  Nothing else declares a
\* stall.
C23_StallExactlyAboveDelay ==
    [][ /\ FedWithoutFrame
            => IF accumDecodeLatency + 1 > getCodecDelay(file)
               THEN StallDeclared
               ELSE /\ accumDecodeLatency' = accumDecodeLatency + 1
                    /\ seeksInCall' = seeksInCall
                    /\ pc' = "loop" /\ errorMsg' = ""
                    /\ retriesRemaining' = retriesRemaining
        /\ (pc = "loop"
               /\ (errorMsg' \in {"stall", "refframe"}
                      \/ stallRetries' > stallRetries))
            => (FedWithoutFrame
                  /\ accumDecodeLatency + 1 > getCodecDelay(file)) ]_vars

C23_Witness ==
    /\ pc = "loop" /\ decodeAttempted /\ ~frameDecoded
    /\ getCodecDelay(file) = 1
    /\ accumDecodeLatency = 0 /\ awaitingFirstDecodeAfterSeek
    /\ decodeNextFrameOut = -1 /\ seeksInCall = 2 /\ stallRetries = 0

\* A feed without a frame that takes the latency above the codec delay.
StallStep == FedWithoutFrame /\ accumDecodeLatency + 1 > getCodecDelay(file)

\* _decodeNextFrameOut when the decoder is fed in the coming iteration: the
\* landing frame if the iteration first synchronises the indices on the
\* packet it reads, else the cursor as it is.
SelectedTs(pkt) == IF timestampField = "pts" THEN pkt.pts ELSE pkt.dts

OutAtFeed ==
    IF lastSeekedFrame >= 0 /\ decodeNextFrameIn < frames
    THEN ptsToFrame(file, SelectedTs(PacketAt(file, filePos)))
    ELSE decodeNextFrameOut

\* The iteration set up a seek to target and made it; the call goes on
\* unless av_seek_frame failed.
Reseeks(target) ==
    /\ lastSeekedFrame' = target
    /\ seeksInCall' = seeksInCall + 1
    /\ decodeNextFrameIn' = -1 /\ decodeNextFrameOut' = -1
    /\ accumDecodeLatency' = 0
    /\ IF errorMsg' = "seek" THEN pc' = "done" /\ result' = "false"
       ELSE pc' = "loop" /\ errorMsg' = "" /\ awaitingFirstDecodeAfterSeek'

FailsWith(msg) ==
    /\ pc' = "done" /\ result' = "false" /\ errorMsg' = msg
    /\ seeksInCall' = seeksInCall /\ retriesRemaining' = retriesRemaining

\* The only fault of the file is a frame other than frame 0 flagged as
\* key-frame at which the decoder cannot start.
FalseKeyFrameOnly == file.keys # file.real /\ 0 \in file.real

ResyncStep ==
    /\ pc = "loop" /\ lastSeekedFrame >= 0
    /\ decodeNextFrameIn < frames
    /\ filePos <= NumPackets(file) /\ IsVideoPos(file, filePos)
    /\ errorMsg' # "read"

\* The frame the packet read next lands at, and whether the landing is
\* valid: the selected timestamp is there and the frame is not beyond the
\* seek target.
LandingFrame == ptsToFrame(file, SelectedTs(PacketAt(file, filePos)))

ValidLanding ==
    /\ SelectedTs(PacketAt(file, filePos)) # AV_NOPTS_VALUE
    /\ LandingFrame <= lastSeekedFrame

\* C26: during resynchronisation a packet of the stream is taken as landing
\* exactly when its selected timestamp is not "no timestamp" and its frame
\* is at most last_seeked_frame; a valid landing sets both cursors to the
\* landing frame and ends the seek, and the packet is fed to the decoder in
\* the same iteration, the first feed since the seek; an invalid landing
\* feeds nothing and leaves the cursors unknown.
C26_ValidLanding ==
    [][ ResyncStep
            => IF ValidLanding
               THEN /\ decodeAttempted'
                    /\ seeksInCall' = seeksInCall
                        => /\ lastSeekedFrame' = -1
                           /\ decodeNextFrameIn' = LandingFrame + 1
                           /\ pc' = "loop"
                               => decodeNextFrameOut' =
                                      IF frameDecoded' THEN LandingFrame + 1
                                      ELSE LandingFrame
                    /\ seeksInCall' # seeksInCall => StallStep
               ELSE /\ ~decodeAttempted'
                    /\ decodeNextFrameIn' = -1 /\ decodeNextFrameOut' = -1
                    /\ lastSeekedFrame' >= 0 \/ pc' = "done" ]_vars

\* decode(1) on a file whose index overshoots at frame 1: the landing at
\* frame 2 is refused, the landing at frame 0 is taken and its packet decoded.
C26_Witness ==
    /\ pc = "loop" /\ decodeAttempted /\ frameDecoded
    /\ requested = 1 /\ file.ovs = 1
    /\ seeksInCall = 2 /\ lastSeekedFrame = -1
    /\ decodeNextFrameIn = 1 /\ decodeNextFrameOut = 1

\* C27: each invalid landing winds last_seeked_frame back by exactly 1 and
\* seeks to it; a landing that would take it below 0 switches the timestamp
\* field from PTS to DTS and restarts from the desired frame, or fails the
\* call.  While a seek is in progress last_seeked_frame never increases but
\* at that switch.
C27_WalkBackByOne ==
    [][ /\ (ResyncStep /\ ~ValidLanding)
            => IF lastSeekedFrame - 1 >= 0
               THEN /\ lastSeekedFrame' = lastSeekedFrame - 1
                    /\ seeksInCall' = seeksInCall + 1
                    /\ timestampField' = timestampField
                    /\ IF errorMsg' = "seek"
                       THEN pc' = "done" /\ result' = "false"
                       ELSE pc' = "loop"
               ELSE \/ /\ timestampField = "pts" /\ timestampField' = "dts"
                       /\ lastSeekedFrame' = frame
                       /\ seeksInCall' = seeksInCall + 1
                    \/ FailsWith("timing")
        /\ (pc = "loop" /\ pc' = "loop"
               /\ lastSeekedFrame >= 0 /\ lastSeekedFrame' >= 0)
            => \/ lastSeekedFrame' <= lastSeekedFrame
               \/ timestampField = "pts" /\ timestampField' = "dts" ]_vars

\* C28: when an invalid landing would take last_seeked_frame below 0, the
\* reader switches to DTS and restarts the resync from the desired frame if
\* the field is PTS and no packet of the stream ever carried a PTS (the one
\* just read included); otherwise the call fails with "failed to find timing
\* reference frame".
C28_SwitchToDtsOrFail ==
    [][ (ResyncStep /\ ~ValidLanding /\ lastSeekedFrame = 0)
            => IF /\ timestampField = "pts" /\ ~ptsSeen
                  /\ PacketAt(file, filePos).pts = AV_NOPTS_VALUE
               THEN /\ timestampField' = "dts"
                    /\ lastSeekedFrame' = frame
                    /\ seeksInCall' = seeksInCall + 1
                    /\ decodeNextFrameIn' = -1 /\ decodeNextFrameOut' = -1
                    /\ IF errorMsg' = "seek"
                       THEN pc' = "done" /\ result' = "false"
                       ELSE pc' = "loop"
               ELSE /\ FailsWith("timing")
                    /\ timestampField' = timestampField ]_vars

C27_Witness ==
    /\ pc = "loop" /\ ~decodeAttempted
    /\ file.ts = "none" /\ timestampField = "dts"
    /\ frame = 2 /\ lastSeekedFrame = 1
    /\ seeksInCall = 5 /\ decodeNextFrameIn = -1

C28_Witness ==
    /\ pc = "loop" /\ ~decodeAttempted
    /\ file.ts = "dtsOnly" /\ timestampField = "dts" /\ ~ptsSeen
    /\ frame = 1 /\ lastSeekedFrame = frame
    /\ seeksInCall = 3 /\ decodeNextFrameIn = -1

\* The packets of the file carry DTS and no PTS, and nothing else is wrong
\* with it.
DtsOnly == file.ts = "dtsOnly"

\* C29: timestamp_field only ever changes from PTS to DTS, hence at most
\* once in the life of the descriptor and never back; on a file whose
\* packets carry DTS but no PTS a call delivers its frame, the field having
\* been switched, unless a library call fails.
C29_SwitchOnceToDts ==
    [][ /\ timestampField' # timestampField
            => /\ timestampField = "pts" /\ timestampField' = "dts"
               /\ ResyncStep /\ ~ptsSeen'
        /\ (DtsOnly /\ pc' = "done" /\ result' # "throw")
            => \/ result' = "true" /\ timestampField' = "dts"
               \/ errorMsg' \in {"seek", "read", "decode"} ]_vars

C29_Witness ==
    /\ DtsOnly /\ pc = "done" /\ result = "true"
    /\ prevResult = "none" /\ requested = 2 /\ file.keys = {0, 1, 2}
    /\ timestampField = "dts" /\ ~ptsSeen /\ seeksInCall = 4

\* An iteration in which av_read_frame reports the end of the file.
EofStep ==
    /\ pc = "loop" /\ decodeNextFrameIn < frames
    /\ filePos > NumPackets(file) /\ errorMsg' # "read"

\* The decoder is pumped with empty packets from the next iteration on.
DrainsNext == pc' = "loop" /\ ~(decodeNextFrameIn' < frames')

\* C30: at the end of the file total_frames becomes decode_next_frame_in;
\* under load_nearest the requested frame becomes total_frames - 1, a seek
\* to it is issued with the cursors at -1 and the latency at 0, and that
\* frame is an index in [0, total_frames); otherwise the decoder is
\* drained with empty packets.
C30_EofCorrectsAndReclamps ==
    [][ EofStep =>
          /\ frames' = decodeNextFrameIn
          /\ IF loadNearest
             THEN /\ frame' = frames' - 1
                  /\ Reseeks(frame')
                  /\ 0 <= frame' /\ frame' < frames'
             ELSE /\ frame' = frame
                  /\ seeksInCall' = seeksInCall
                  /\ DrainsNext ]_vars

\* An iteration that reads a packet of a stream other than the video stream.
OtherStreamStep ==
    /\ pc = "loop" /\ decodeNextFrameIn < frames
    /\ filePos <= NumPackets(file) /\ ~IsVideoPos(file, filePos)
    /\ errorMsg' # "read"

\* C31: a packet of another stream is discarded: the cursors, the latency,
\* pts_seen, timestamp_field, last_seeked_frame and the retry budget stay
\* as they were, the decoder is given nothing, and neither a stall nor a
\* seek follows from it.
C31_OtherStreamDiscarded ==
    [][ OtherStreamStep =>
          /\ UNCHANGED << decodeNextFrameIn, decodeNextFrameOut,
                          accumDecodeLatency, ptsSeen, timestampField,
                          lastSeekedFrame, retriesRemaining >>
          /\ UNCHANGED << decoderQueue, decoderSynced, data, frames >>
          /\ ~decodeAttempted' /\ ~frameDecoded'
          /\ UNCHANGED << seeksInCall, stallRetries, errorMsg >>
          /\ pc' = "loop" /\ filePos' = filePos + 1 ]_vars

\* An audio packet was skipped between the landing of a seek and the
\* delivery of the frame.
C31_Witness ==
    /\ file.audio /\ pc = "done" /\ result = "true"
    /\ requested = 1 /\ seeksInCall = 1
    /\ decodeNextFrameIn = 2 /\ decodeNextFrameOut = 2
    /\ ~IsVideoPos(file, filePos - 2)

\* The files of PacketSpec: containers of two or three frames, sound but
\* for the advertised frame count and for one packet, not the first, that
\* has no payload.
HollowContainers ==
    { [c EXCEPT !.hollow = {h}] :
        c \in { d \in Containers :
                   /\ d.n >= 2 /\ d.ts = "both" /\ d.ovs = -1
                   /\ d.bad = {} /\ d.keys = d.real },
        h \in 1 .. (MaxFrames - 1) }

PacketInit ==
    /\ file \in { Opened(c) : c \in { d \in HollowContainers :
                                         d.hollow \subseteq 0 .. (d.n - 1) } }
    /\ DescriptorInit
    /\ ReaderReady
    /\ LockIdle
    /\ ScalerIdle

PacketSpec == PacketInit /\ [][Next]_vars

\* C32: at the end of every iteration of the loop and when decode has
\* returned, the packet read last has been released: _avPacket owns nothing.
C32_PacketReleased ==
    pc \in {"loop", "done"} => avPacket = "blank"

\* ------------------------------------------------- the convert context
\* The pixel formats, colour ranges and colour spaces a codec context of
\* the model reports.
PixelFormats == { "YUV420P", "YUVJ420P", "YUV422P" }

ColorRanges == { "UNSPECIFIED", "MPEG", "JPEG" }

CodecContexts ==
    [ pix_fmt : PixelFormats, color_range : ColorRanges,
      colorspace : { "BT709", "BT470BG" } ]

\* The deprecated full-range formats are replaced by their equivalents.
NormalizedFormat(fmt) == IF fmt = "YUVJ420P" THEN "YUV420P" ELSE fmt

\* Stream::isRec709Format
isRec709Format == codecContext.colorspace = "BT709"

\* The coefficients getConvertCtx() selects under the override given.
SelectedColorspace(override) ==
    IF override > 0
    THEN (IF override = 1 THEN "ITU709" ELSE "ITU601")
    ELSE (IF isRec709Format THEN "ITU709" ELSE "ITU601")

\* The range flag getConvertCtx() passes for a colour range.
SrcRange(range) ==
    CASE range = "MPEG" -> 0
      [] range = "JPEG" -> 1
      [] OTHER -> IF isYUV THEN 0 ELSE 1

\* Stream::getConvertCtx on the fields sc of the stream.  built is whether
\* sws_getContext returns a context, configOk whether
\* sws_setColorspaceDetails succeeds.  outcome is "context" or "null", what
\* is returned; "crash" when sws_setColorspaceDetails is given a null
\* context; "abort" when the assertion fails.
GetConvertCtx(sc, srcPixelFormat, srcColorRange, built, configOk) ==
    LET s1 == IF sc.resetConvertCtx
              THEN [sc EXCEPT !.resetConvertCtx = FALSE,
                              !.convertCtx = FALSE, !.swsContext = NoContext]
              ELSE sc
        made == [s1 EXCEPT !.convertCtx = built,
                           !.swsContext =
                               IF built
                               THEN [NoContext EXCEPT !.srcFormat =
                                         NormalizedFormat(srcPixelFormat)]
                               ELSE NoContext]
        set == [made EXCEPT !.swsContext =
                   [@ EXCEPT !.colorspace =
                                 SelectedColorspace(sc.colorMatrixTypeOverride),
                             !.srcRange = SrcRange(srcColorRange),
                             !.configured = TRUE]]
        Returns(s) ==
            s @@ [ outcome |-> IF s.convertCtx THEN "context" ELSE "null" ]
    IN  IF s1.convertCtx THEN Returns(s1)
        ELSE IF ~isYUV THEN Returns(made)
        ELSE IF ~built THEN made @@ [ outcome |-> "crash" ]
        ELSE IF configOk THEN Returns(set)
        ELSE IF sc.ndebugBuild THEN Returns(made)
        ELSE made @@ [ outcome |-> "abort" ]

\* The fields of the stream getConvertCtx() works on.
Scaler ==
    [ convertCtx |-> convertCtx, swsContext |-> swsContext,
      resetConvertCtx |-> resetConvertCtx,
      colorMatrixTypeOverride |-> colorMatrixTypeOverride,
      ndebugBuild |-> ndebugBuild ]

\* decode() asks for the convert context of a decoded frame, with the
\* pixel format and the colour range of the codec context.
GetConvertCtxCall ==
    /\ convCall = NoConv
    /\ \E built \in BOOLEAN, configOk \in BOOLEAN :
          LET r == GetConvertCtx(Scaler, codecContext.pix_fmt,
                                 codecContext.color_range, built, configOk)
          IN  /\ convertCtx' = r.convertCtx
              /\ swsContext' = r.swsContext
              /\ resetConvertCtx' = r.resetConvertCtx
              /\ convCall' = [ outcome |-> r.outcome,
                               srcPixelFormat |-> codecContext.pix_fmt,
                               srcColorRange |-> codecContext.color_range,
                               configOk |-> configOk,
                               cached |-> convertCtx /\ ~resetConvertCtx ]
    /\ UNCHANGED << colorMatrixTypeOverride, codecContext, ndebugBuild >>
    /\ UNCHANGED << file, frames, decodeNextFrameIn, decodeNextFrameOut,
                    accumDecodeLatency, timestampField, ptsSeen, filePos,
                    decoderQueue, decoderSynced, avPacket, pc, frame,
                    loadNearest, retriesRemaining, lastSeekedFrame,
                    awaitingFirstDecodeAfterSeek, hasPicture,
                    decodeAttempted, frameDecoded, result, requested,
                    maxRetriesArg, framesAtCall, seeksInCall, stallRetries,
                    prevResult, seqCalls, totalSeeks, errorMsg, data,
                    firstOp, readerVars, lockVars >>

\* The call has returned and its result has been used.
ConvReturn ==
    /\ convCall # NoConv
    /\ convCall.outcome \in {"context", "null"}
    /\ convCall' = NoConv
    /\ UNCHANGED << swsContext, resetConvertCtx, colorMatrixTypeOverride,
                    codecContext, ndebugBuild, decodeVars, readerVars,
                    lockVars >>

\* The caller selects another colour matrix: the reset is flagged.
SetColorMatrixTypeOverride ==
    /\ convCall = NoConv
    /\ \E o \in (0 .. 2) \ {colorMatrixTypeOverride} :
          colorMatrixTypeOverride' = o
    /\ resetConvertCtx' = TRUE
    /\ UNCHANGED << swsContext, codecContext, ndebugBuild, convCall,
                    decodeVars, readerVars, lockVars >>

\* Decoding goes on and the codec context reports another pixel format or
\* colour range.
CodecReports ==
    /\ convCall = NoConv
    /\ codecContext' \in CodecContexts \ {codecContext}
    /\ codecContext'.colorspace = codecContext.colorspace
    /\ UNCHANGED << swsContext, resetConvertCtx, colorMatrixTypeOverride,
                    ndebugBuild, convCall, decodeVars, readerVars,
                    lockVars >>

ConvNext ==
    \/ GetConvertCtxCall
    \/ ConvReturn
    \/ SetColorMatrixTypeOverride
    \/ CodecReports

\* A reader opened on a file with one video stream, YUV or not, in a build
\* with or without assertions.
ConvInit ==
    /\ \E y \in BOOLEAN :
          /\ media = [PlainMedia EXCEPT
                         !.avstreams = << [PlainVideo EXCEPT !.yuv = y] >>]
          /\ streams = << NewStream(0, [PlainVideo EXCEPT !.yuv = y],
                                    PlainMedia.duration) >>
    /\ context = "open"
    /\ invalidState = FALSE
    /\ dataSize = AllocSize(NewStream(0, PlainVideo, PlainMedia.duration))
    /\ dataAllocs = 1
    /\ opc = "ready"
    /\ scanIdx = 2
    /\ ret = NoCall
    /\ LockIdle
    /\ DescriptorIdle
    /\ swsContext = NoContext
    /\ resetConvertCtx = FALSE
    /\ colorMatrixTypeOverride = 0
    /\ codecContext \in CodecContexts
    /\ ndebugBuild \in BOOLEAN
    /\ convCall = NoConv

ConvSpec == ConvInit /\ [][ConvNext]_vars

\* getConvertCtx() has just returned a convert context.
ContextReturned == convCall # NoConv /\ convCall.outcome = "context"

\* C33: a convert context that getConvertCtx returns was built for the
\* source format and range of this call and for the current colour matrix
\* override, and the reset flag is clear after the call.
C33_ContextBuiltForRequest ==
    ContextReturned
        => /\ ~resetConvertCtx
           /\ swsContext.srcFormat = NormalizedFormat(convCall.srcPixelFormat)
           /\ (isYUV /\ swsContext.configured)
                => /\ swsContext.srcRange = SrcRange(convCall.srcColorRange)
                   /\ swsContext.colorspace
                        = SelectedColorspace(colorMatrixTypeOverride)

\* sws_setColorspaceDetails failed in the getConvertCtx() call that has just
\* ended.
ConfigFailed ==
    /\ convCall # NoConv /\ convCall.outcome \in {"context", "abort"}
    /\ ~convCall.cached /\ isYUV /\ ~convCall.configOk

\* C34: when the colour configuration of a new convert context fails the
\* context is discarded, _convertCtx is empty again and no context is
\* returned; a context whose configuration failed is never in the cache.
C34_FailedContextDiscarded ==
    /\ ConfigFailed => (~convertCtx /\ convCall.outcome # "context")
    /\ (convertCtx /\ isYUV) => swsContext.configured

\* ------------------------------------------- frames and timestamps again
\* Most frame index the round trip is taken of.
MaxIndex == 6

\* Streams of varied time base, frame rate and start PTS.
TimedProfiles ==
    { [ tbNum |-> tb[1], tbDen |-> tb[2], fpsNum |-> fps[1],
        fpsDen |-> fps[2], startPTS |-> start ] :
        tb \in { << 1, 24 >>, << 1, 48 >>, << 1, 1000 >>, << 1, 90000 >>,
                 << 1001, 30000 >> },
        fps \in { << 24, 1 >>, << 25, 1 >>, << 30000, 1001 >> },
        start \in { -3, 0, 5 } }

\* A reader opened on a stream of TimedProfiles.
PtsInit ==
    /\ \E p \in TimedProfiles :
          file = [ k \in DOMAIN PlainFile |->
                     IF k \in DOMAIN p THEN p[k] ELSE PlainFile[k] ]
    /\ DescriptorInit
    /\ ReaderReady
    /\ LockIdle
    /\ ScalerIdle

\* The frame a seek to frame f is aimed at, read back from its timestamp:
\* seekFrame() maps f with frameToPts, decode() maps the timestamp of the
\* packet back with ptsToFrame.
FrameOfTimestamp ==
    /\ opc = "ready"
    /\ \E f \in 0 .. MaxIndex :
          ret' = [ method |-> "ptsToFrame", frame |-> f,
                   value |-> ptsToFrame(file, frameToPts(file, f)) ]
    /\ UNCHANGED << media, context, streams, invalidState, dataSize,
                    dataAllocs, opc, scanIdx, lockVars, scalerVars,
                    decodeVars >>

PtsSpec == PtsInit /\ [][FrameOfTimestamp]_vars

\* C35: for every frame f >= 0, time base, frame rate and start PTS,
\* ptsToFrame(frameToPts(f)) = f.
C35_RoundTrip ==
    ret.method = "ptsToFrame" => ret.value = ret.frame

\* What a decode() call works on but its locals: the fields of the stream,
\* the output buffer, the container's read position and the decoder.
StreamState ==
    << decodeNextFrameIn, decodeNextFrameOut, accumDecodeLatency,
       timestampField, ptsSeen, frames, data, convertCtx, filePos,
       decoderQueue, decoderSynced, avPacket >>

\* C36: a call that throws "Missing frame" seeks nothing, reads nothing,
\* feeds nothing and leaves the cursors, the latency, timestamp_field,
\* pts_seen, total_frames and the output buffer as they were, so that a
\* call for the next expected frame that follows it starts with no seek.
C36_MissingFrameChangesNothing ==
    [][ /\ (pc = "idle" /\ result' = "throw")
            => /\ pc' = "done" /\ firstOp' = "none" /\ seeksInCall' = 0
               /\ UNCHANGED << StreamState, totalSeeks >>
        /\ (pc = "done" /\ result = "throw") => UNCHANGED StreamState
        /\ (pc = "idle" /\ result = "throw" /\ result' = "running"
                /\ frame' = decodeNextFrameOut)
            => pc' = "loop" /\ seeksInCall' = 0 /\ UNCHANGED StreamState ]_vars

C36_Witness ==
    /\ pc = "done" /\ result = "true" /\ prevResult = "throw"
    /\ requested = 1 /\ seeksInCall = 0 /\ firstOp = "read"
    /\ decodeNextFrameOut = 2 /\ data = 1

\* Bytes of a pixel in the packed output formats.
BytesPerPixel(fmt) ==
    CASE fmt = "RGB24" -> 3
      [] fmt = "RGBA" -> 4
      [] fmt = "RGB48LE" -> 6
      [] fmt = "RGBA64LE" -> 8

\* Bytes sws_scale writes into _data for a picture of the stream: height
\* rows of width pixels of the output pixel format.
PictureBytes(stream) ==
    stream.width * stream.height * BytesPerPixel(stream.outputPixelFormat)

\* C37: the bytes a successful decode writes into the output buffer do not
\* exceed the size the buffer was allocated with.
C37_PictureFitsBuffer ==
    (opc = "ready" /\ ret.method = "decode" /\ ret.value = "true")
        => PictureBytes(streams[1]) <= dataSize

\* C38: inside the loop of decode, with no picture yet, an output cursor
\* that is known is at most the frame asked for (as clamped), and so is the
\* target of the seek in progress: the output numbered as that frame is
\* still to come.
C38_CursorNotPastFrame ==
    pc = "loop"
        => /\ ~hasPicture
           /\ decodeNextFrameOut >= 0 => decodeNextFrameOut <= frame
           /\ lastSeekedFrame <= frame
           /\ decodeNextFrameOut >= 0 => lastSeekedFrame = -1

C38_Witness ==
    /\ pc = "loop" /\ frame = 2 /\ seeksInCall = 1 /\ file.keys = {0}
    /\ lastSeekedFrame = -1 /\ decodeNextFrameOut = 1 /\ frameDecoded

\* With both cursors known, the input cursor is ahead of the output cursor
\* by the accumulated latency.
LatencyIsLead ==
    (decodeNextFrameIn >= 0 /\ decodeNextFrameOut >= 0)
        => decodeNextFrameIn - decodeNextFrameOut = accumDecodeLatency

\* The coming iteration feeds the decoder an empty packet.
DrainStep == pc = "loop" /\ ~(decodeNextFrameIn < frames)

\* C39: every seek leaves the cursors unknown, and every step but the feed
\* of an empty packet keeps decode_next_frame_in - decode_next_frame_out
\* equal to accum_decode_latency once both cursors are known, the entry and
\* the return of a call included: the relation holds at the end of every
\* iteration since the last seek until the decoder is drained.
C39_LatencyIsCursorLead ==
    [][ /\ (seeksInCall' > seeksInCall \/ totalSeeks' > totalSeeks)
            => (decodeNextFrameIn' = -1 /\ decodeNextFrameOut' = -1)
        /\ (LatencyIsLead /\ ~DrainStep) => LatencyIsLead' ]_vars

C39_Witness ==
    /\ pc = "done" /\ result = "true" /\ prevResult = "true"
    /\ seeksInCall = 0 /\ requested = 1 /\ file.delay = 1
    /\ decodeNextFrameIn = 3 /\ decodeNextFrameOut = 2
    /\ accumDecodeLatency = 1

\* C40: after open, total_frames changes only at the end-of-file correction
\* of decode, which strictly decreases it, and it is never below 0.
C40_FramesOnlyShrinkAboveZero ==
    [][ /\ frames' # frames
            => (EofStep /\ frames' = decodeNextFrameIn /\ frames' < frames)
        /\ frames' >= 0 ]_vars

====
